---- MODULE Spec2Model ----
(***************************************************************************)
(* Image selection and validation core of the MCUboot loader for the       *)
(* DIRECT_XIP and RAM_LOAD modes (boot/bootutil/src/loader_direct_xip.c,   *)
(* loader_ram_load.c, loader_xip_ram_common.c).                            *)
(*                                                                         *)
(* One behaviour is one run of context_boot_go on one build: the build     *)
(* options are fixed in the initial state (cfg), the flash content at boot *)
(* entry is an input (flash), and the results of the I/O collaborators     *)
(* (open, header read, trailer read and write, scramble, find-slot hook,   *)
(* counter service, shared data, TLV reads) are chosen when they are       *)
(* called.                                                                 *)
(***************************************************************************)
EXTENDS Integers, Sequences, FiniteSets, TLC

(***************************************************************************)
(* Bounds of the model.                                                    *)
(***************************************************************************)
\* The inputs of a boot (flash content, image mask, results of the I/O
\* collaborators) differ from the default (every slot holds a valid, fresh,
\* unconstrained image of version 1.0.0+0, no image is masked, no I/O call
\* fails) in at most MaxDeviations places.
MaxDeviations == 2

(***************************************************************************)
(* Program constants.                                                      *)
(***************************************************************************)
BOOT_NUM_SLOTS == 2
BOOT_SLOT_PRIMARY == 0
\* the "no slot" sentinel: a value that is no slot index
BOOT_SLOT_NONE == 255
IMAGE_F_ROM_FIXED == 256
BOOT_EFLASH == 1
BOOT_EBADIMAGE == 3
BOOT_EBADARGS == 7
\* the answer of the find-slot hook that leaves the choice to the loader
BOOT_HOOK_REGULAR == 1
\* sizeof(struct image_dependency)
DEP_SIZE == 12

FIH_SUCCESS == "FIH_SUCCESS"
FIH_FAILURE == "FIH_FAILURE"

\* The values of BOOT_IMAGE_NUMBER of the builds that are modelled.
ImageNumbers == {1, 2}
\* The outer select/verify loop is counted up to this cap (the counter
\* saturates there, so that a loop that never ends has finitely many states).
IterCap == 6

Slots == 0 .. (BOOT_NUM_SLOTS - 1)
\* Image versions are <<major, 0, 0, 0>>.
Majors == {1, 2}
Versions == {<<m, 0, 0, 0>> : m \in Majors}
ZeroVersion == <<0, 0, 0, 0>>

VARIABLES
    cfg,          \* build options: mode, revert, hw_rollback_prot, hw_lock,
                  \* asserts (FALSE: compiled with NDEBUG), nimg
    img_mask,     \* state->img_mask[image]
    flash,        \* flash content: flash[image][slot]
    flash0,       \* the flash content at boot entry (never changes)
    imgs,         \* state->imgs[image][slot].hdr, the cached headers
    slot_usage,   \* state->slot_usage[image]
    sram,         \* the RAM staging copy of each image (RAM_LOAD)
    pc,           \* position in context_boot_go_*
    curr_img,     \* BOOT_CURR_IMG(state)
    rc,           \* context_boot_go_*'s rc
    fih_rc,       \* context_boot_go_*'s fih_rc
    rsp,          \* the boot response
    boot_result,  \* the value context_boot_go returned, "none" before
    outer_iter,   \* passes of the outer select/verify loop started so far
    calls,        \* the calls and slot decisions made so far, oldest first:
                  \* <<op, image, slot, rc>>
    faults        \* the I/O calls that fail in this boot: <<call, image, slot, 0>>,
                  \* and the answers of the find-slot hook: <<"hook", image, slot, 0>>

vars == <<cfg, img_mask, flash, flash0, imgs, slot_usage, sram, pc, curr_img,
          rc, fih_rc, rsp, boot_result, outer_iter, calls, faults>>

Images == 0 .. (cfg.nimg - 1)
IsXip == cfg.mode = "DIRECT_XIP"
IsRam == cfg.mode = "RAM_LOAD"
\* img_mask exists only when BOOT_IMAGE_NUMBER > 1
Masked(i) == cfg.nimg > 1 /\ img_mask[i]

\* boot_img_slot_off(state, slot) of image i: the flash offset of the slot
SlotOff(i, s) == 65536 * (2 * i + s + 1)
\* flash_area_get_device_id(BOOT_IMG_AREA(state, slot))
SlotDev(i, s) == i

(***************************************************************************)
(* Flash content of one slot.                                              *)
(***************************************************************************)
DefaultSlot(i) ==
    [hdr_ok       |-> TRUE,           \* boot_check_header_valid accepts it
     ih_ver       |-> <<1, 0, 0, 0>>,
     ih_flags     |-> 0,
     ih_load_addr |-> SlotOff(i, BOOT_SLOT_PRIMARY),
     magic        |-> "good",         \* trailer
     copy_done    |-> "unset",
     image_ok     |-> "unset",
     sig_ok       |-> TRUE,           \* the image passes boot_validate_slot
     load_ok      |-> TRUE,           \* the image can be copied to SRAM
     deps         |-> <<>>]           \* IMAGE_TLV_DEPENDENCY entries

\* A slot after boot_scramble_region / an erase of the whole slot.
ErasedSlot ==
    [hdr_ok       |-> FALSE,
     ih_ver       |-> ZeroVersion,
     ih_flags     |-> 0,
     ih_load_addr |-> 0,
     magic        |-> "unset",
     copy_done    |-> "unset",
     image_ok     |-> "unset",
     sig_ok       |-> FALSE,
     load_ok      |-> FALSE,
     deps         |-> <<>>]

\* Memory that boot_go has not written yet (the state structure is zeroed).
ZeroHdr == [ih_ver |-> ZeroVersion, ih_flags |-> 0, ih_load_addr |-> 0]
ZeroSwapState == [magic |-> "zero", copy_done |-> "zero", image_ok |-> "zero"]
ZeroUsage ==
    [slot_available |-> [s \in Slots |-> FALSE],
     active_slot    |-> 0,
     swap_state     |-> ZeroSwapState]
NoRamImage == [slot |-> BOOT_SLOT_NONE, whole |-> FALSE, sig_ok |-> FALSE, deps |-> <<>>]
RspUntouched == [br_flash_dev_id |-> -1, br_image_off |-> -1, br_hdr |-> <<>>]

Dep(j, v) == [len |-> DEP_SIZE, image_id |-> j, min_ver |-> v]

(***************************************************************************)
(* The inputs of a boot: deviations <<kind, image, slot, value>> from the  *)
(* default flash content, image mask and initial memory.                   *)
(***************************************************************************)
NoDev == <<"none", 0, 0, 0>>
\* what the never-written record of a masked image can hold as active_slot
\* when it is no slot index: any uint32_t value from BOOT_NUM_SLOTS on.  The
\* two values next to the slots reach a header of the next image, or the
\* memory behind imgs for the last image; BOOT_SLOT_NONE - 1 stands for the
\* values far outside, which the selector takes as "a slot is active" too.
NoSlotIndex == {BOOT_NUM_SLOTS, BOOT_NUM_SLOTS + 1, BOOT_SLOT_NONE - 1, BOOT_SLOT_NONE}

FaultKinds == {"f_open", "f_headers", "f_read_swap", "f_scramble", "f_copy_done",
               "f_counter", "f_lock", "f_shared",
               "f_tlv_begin", "f_tlv_next", "f_tlv_read", "f_tamper", "f_load_part",
               "hook_on", "hook"}

DevItems(c, kinds) ==
    LET I == 0 .. (c.nimg - 1)
        On(k) == k \in kinds
    IN  {NoDev}
        \cup (IF On("hdr_ok") THEN {<<"hdr_ok", i, s, FALSE>> : i \in I, s \in Slots} ELSE {})
        \cup (IF On("ih_ver")
              THEN {<<"ih_ver", i, s, m>> : i \in I, s \in Slots, m \in Majors \ {1}}
              ELSE {})
        \cup (IF On("sig_ok") THEN {<<"sig_ok", i, s, FALSE>> : i \in I, s \in Slots} ELSE {})
        \cup (IF On("ih_flags") /\ c.mode = "DIRECT_XIP"
              THEN {<<"ih_flags", i, s, IMAGE_F_ROM_FIXED>> : i \in I, s \in Slots}
              ELSE {})
        \cup (IF On("ih_load_addr") /\ c.mode = "DIRECT_XIP"
              THEN {<<"ih_load_addr", i, s, 1>> : i \in I, s \in Slots}
              ELSE {})
        \cup (IF On("magic") /\ c.revert
              THEN {<<"magic", i, s, 2>> : i \in I, s \in Slots}
              ELSE {})
        \cup (IF On("magic_unset") /\ c.revert
              THEN {<<"magic", i, s, 3>> : i \in I, s \in Slots}
              ELSE {})
        \cup (IF On("copy_done") /\ c.revert
              THEN {<<"copy_done", i, s, 1>> : i \in I, s \in Slots}
              ELSE {})
        \cup (IF On("image_ok") /\ c.revert
              THEN {<<"image_ok", i, s, 1>> : i \in I, s \in Slots}
              ELSE {})
        \cup (IF On("flag_bad") /\ c.revert
              THEN {<<k, i, s, 2>> : k \in {"copy_done", "image_ok"}, i \in I, s \in Slots}
              ELSE {})
        \cup (IF On("load_ok") /\ c.mode = "RAM_LOAD"
              THEN {<<"load_ok", i, s, FALSE>> : i \in I, s \in Slots}
                   \cup {<<"f_load_part", i, s, 0>> : i \in I, s \in Slots}
              ELSE {})
        \cup (IF On("deps") /\ c.nimg > 1
              THEN {d \in {<<"deps", i, s, <<j, m>> >> :
                              i \in I, s \in Slots, j \in I, m \in Majors \ {1}} :
                        d[4][1] # d[2]}
              ELSE {})
        \cup (IF On("deps_self") /\ c.nimg > 1
              THEN {<<"deps", i, s, <<i, m>> >> : i \in I, s \in Slots, m \in Majors}
              ELSE {})
        \cup (IF On("deps_any") /\ c.nimg > 1
              THEN {<<"deps", i, s, <<1 - i, 0>> >> : i \in I, s \in Slots}
              ELSE {})
        \cup (IF On("deps_bad") /\ c.nimg > 1
              THEN {<<"deps", i, s, <<c.nimg, 1>> >> : i \in I, s \in Slots}
                   \cup {<<"deps_len", i, s, 0>> : i \in I, s \in Slots}
              ELSE {})
        \cup (IF On("img_mask") /\ c.nimg > 1
              THEN {<<"img_mask", i, 0, TRUE>> : i \in I}
              ELSE {})
        \cup (IF On("f_open") THEN {<<"f_open", 0, 0, 0>>} ELSE {})
        \cup (IF On("f_headers") THEN {<<"f_headers", i, 0, 0>> : i \in I} ELSE {})
        \cup (IF On("f_copy_done") /\ c.revert
              THEN {<<"f_copy_done", i, s, 0>> : i \in I, s \in Slots}
              ELSE {})
        \cup (IF On("f_gate") /\ c.revert
              THEN {<<k, i, s, 0>> : k \in {"f_read_swap", "f_scramble"},
                                    i \in I, s \in Slots}
              ELSE {})
        \cup (IF On("hook")
              THEN {<<"hook_on", 0, 0, 0>>}
                   \cup {<<"hook", i, a, 0>> : i \in I, a \in Slots \cup {BOOT_SLOT_NONE}}
              ELSE {})
        \cup (IF On("f_counter") /\ c.hw_rollback_prot
              THEN {<<"f_counter", i, 0, 0>> : i \in I}
              ELSE {})
        \cup (IF On("f_counter") /\ c.hw_lock
              THEN {<<"f_lock", i, 0, 0>> : i \in I}
              ELSE {})
        \cup (IF On("f_shared") THEN {<<"f_shared", i, 0, 0>> : i \in I} ELSE {})
        \cup (IF On("f_tlv") /\ c.nimg > 1
              THEN {<<k, i, s, 0>> : k \in {"f_tlv_begin", "f_tlv_next", "f_tlv_read"},
                                    i \in I, s \in Slots}
              ELSE {})
        \cup (IF On("f_tamper") /\ c.mode = "RAM_LOAD"
              THEN {<<"f_tamper", i, s, 0>> : i \in I, s \in Slots}
              ELSE {})
        \cup (IF On("garbage") /\ c.nimg > 1
              THEN {<<"g_active", i, 0, a>> : i \in I, a \in {1} \cup NoSlotIndex}
                   \cup {<<"g_avail", i, s, TRUE>> : i \in I, s \in Slots}
                   \cup {<<"g_ver", i, s, m>> : i \in I, s \in Slots, m \in Majors}
              ELSE {})

FlagName(n) == IF n = 1 THEN "set" ELSE IF n = 2 THEN "bad" ELSE "unset"
MagicName(n) == IF n = 1 THEN "good" ELSE IF n = 2 THEN "bad" ELSE "unset"

\* The flash of slot (i, s) with deviation d applied.
DevSlot(r, i, s, d) ==
    IF d[2] # i \/ d[3] # s THEN r
    ELSE CASE d[1] = "hdr_ok"       -> [r EXCEPT !.hdr_ok = FALSE]
           [] d[1] = "ih_ver"       -> [r EXCEPT !.ih_ver = <<d[4], 0, 0, 0>>]
           [] d[1] = "sig_ok"       -> [r EXCEPT !.sig_ok = FALSE]
           [] d[1] = "ih_flags"     -> [r EXCEPT !.ih_flags = d[4]]
           [] d[1] = "ih_load_addr" -> [r EXCEPT !.ih_load_addr = SlotOff(i, d[4])]
           [] d[1] = "magic"        -> [r EXCEPT !.magic = MagicName(d[4])]
           [] d[1] = "copy_done"    -> [r EXCEPT !.copy_done = FlagName(d[4])]
           [] d[1] = "image_ok"     -> [r EXCEPT !.image_ok = FlagName(d[4])]
           [] d[1] = "load_ok"      -> [r EXCEPT !.load_ok = FALSE]
           [] d[1] = "f_load_part"  -> [r EXCEPT !.load_ok = FALSE]
           [] d[1] = "deps"         -> [r EXCEPT !.deps =
                                           <<Dep(d[4][1], <<d[4][2], 0, 0, 0>>)>>]
           [] d[1] = "deps_len"     -> [r EXCEPT !.deps =
                                           <<[len |-> DEP_SIZE - 4, image_id |-> 0,
                                              min_ver |-> <<1, 0, 0, 0>>]>>]
           [] OTHER                 -> r

DevUsage(u, i, d) ==
    IF d[2] # i THEN u
    ELSE CASE d[1] = "g_active" -> [u EXCEPT !.active_slot = d[4]]
           [] d[1] = "g_avail"  -> [u EXCEPT !.slot_available[d[3]] = TRUE]
           [] OTHER             -> u

DevHdr(h, i, s, d) ==
    IF d[1] = "g_ver" /\ d[2] = i /\ d[3] = s
    THEN [h EXCEPT !.ih_ver = <<d[4], 0, 0, 0>>]
    ELSE h

RECURSIVE ApplySlot(_, _, _, _)
ApplySlot(r, i, s, ds) ==
    IF ds = <<>> THEN r ELSE ApplySlot(DevSlot(r, i, s, Head(ds)), i, s, Tail(ds))
RECURSIVE ApplyUsage(_, _, _)
ApplyUsage(u, i, ds) ==
    IF ds = <<>> THEN u ELSE ApplyUsage(DevUsage(u, i, Head(ds)), i, Tail(ds))
RECURSIVE ApplyHdr(_, _, _, _)
ApplyHdr(h, i, s, ds) ==
    IF ds = <<>> THEN h ELSE ApplyHdr(DevHdr(h, i, s, Head(ds)), i, s, Tail(ds))

\* The state on entry to context_boot_go for build c and deviations ds.
InitWith(c, ds) ==
    LET I == 0 .. (c.nimg - 1)
        fl == [i \in I |-> [s \in Slots |-> ApplySlot(DefaultSlot(i), i, s, ds)]]
    IN  /\ cfg = c
        /\ img_mask = [i \in I |-> \E k \in 1 .. Len(ds) : ds[k] = <<"img_mask", i, 0, TRUE>>]
        /\ flash = fl
        /\ flash0 = fl
        /\ imgs = [i \in I |-> [s \in Slots |-> ApplyHdr(ZeroHdr, i, s, ds)]]
        /\ slot_usage = [i \in I |-> ApplyUsage(ZeroUsage, i, ds)]
        /\ sram = [i \in I |-> NoRamImage]
        /\ pc = "open"
        /\ curr_img = 0
        /\ rc = 0
        /\ fih_rc = FIH_FAILURE
        /\ rsp = RspUntouched
        /\ boot_result = "none"
        /\ outer_iter = 0
        /\ calls = <<>>
        /\ faults = {ds[k] : k \in {n \in 1 .. Len(ds) : ds[n][1] \in FaultKinds}}

\* Entry states in which image t is masked and its record, which
\* boot_get_slot_usage does not write, holds an active_slot that is no slot
\* index; the other inputs are drawn from kinds.
MaskedTargetInit(c, kinds) ==
    \E t \in 0 .. (c.nimg - 1) : \E a \in NoSlotIndex :
        \E ds \in [1 .. (MaxDeviations - 1) -> DevItems(c, kinds)] :
            InitWith(c, <<<<"img_mask", t, 0, TRUE>>, <<"g_active", t, 0, a>>>> \o ds)

\* The builds: MCUBOOT_HW_ROLLBACK_PROT_LOCK is looked at only under
\* MCUBOOT_HW_ROLLBACK_PROT, and the only asserts that can fail are those of
\* boot_select_or_erase, which is compiled in the revert builds only.
Builds ==
    {c \in [mode : {"DIRECT_XIP", "RAM_LOAD"}, revert : BOOLEAN,
            hw_rollback_prot : BOOLEAN, hw_lock : BOOLEAN, asserts : BOOLEAN,
            nimg : ImageNumbers] :
        /\ c.hw_lock => c.hw_rollback_prot
        /\ ~c.revert => c.asserts}

MainKinds == {"hdr_ok", "ih_ver", "sig_ok", "ih_flags", "copy_done", "image_ok",
              "load_ok", "deps", "img_mask",
              "f_open", "f_headers", "f_copy_done", "f_gate", "f_counter", "f_shared",
              "hook"}

Init ==
    \E c \in Builds :
        \E ds \in [1 .. MaxDeviations -> DevItems(c, MainKinds)] : InitWith(c, ds)


(***************************************************************************)
(* Helpers.                                                                *)
(***************************************************************************)
Log(op, i, s, r) == <<op, i, s, r>>
Fails(call, i, s) == <<call, i, s, 0>> \in faults

\* The least non-masked image index >= k, or cfg.nimg when there is none
\* (IMAGES_ITER with the img_mask test and continue).
RECURSIVE NextUnmasked(_)
NextUnmasked(k) ==
    IF k >= cfg.nimg THEN cfg.nimg
    ELSE IF Masked(k) THEN NextUnmasked(k + 1) ELSE k

(***************************************************************************)
(* boot_compare_version: lexicographic order over major, minor, revision,  *)
(* build; -1, 0 or 1.                                                      *)
(***************************************************************************)
RECURSIVE CompareFrom(_, _, _)
CompareFrom(v1, v2, k) ==
    IF k > 4 THEN 0
    ELSE IF v1[k] < v2[k] THEN -1
    ELSE IF v1[k] > v2[k] THEN 1
    ELSE CompareFrom(v1, v2, k + 1)

boot_compare_version(v1, v2) == CompareFrom(v1, v2, 1)

(***************************************************************************)
(* find_slot_with_highest_version for image i: the available slot with the *)
(* highest cached version, the lowest index on a tie; BOOT_SLOT_NONE when   *)
(* no slot is available.                                                   *)
(***************************************************************************)
RECURSIVE FindSlotFrom(_, _, _)
FindSlotFrom(i, slot, candidate_slot) ==
    IF slot >= BOOT_NUM_SLOTS THEN candidate_slot
    ELSE IF slot_usage[i].slot_available[slot]
         THEN IF candidate_slot = BOOT_SLOT_NONE
              THEN FindSlotFrom(i, slot + 1, slot)
              ELSE IF boot_compare_version(imgs[i][slot].ih_ver,
                                           imgs[i][candidate_slot].ih_ver) = 1
                   THEN FindSlotFrom(i, slot + 1, slot)
                   ELSE FindSlotFrom(i, slot + 1, candidate_slot)
         ELSE FindSlotFrom(i, slot + 1, candidate_slot)

\* a later slot replaces the candidate on a tie as well (rc >= 0 for rc == 1)
FindSlotTieToLaterBug(i) ==
    IF slot_usage[i].slot_available[0] /\ slot_usage[i].slot_available[1]
    THEN IF boot_compare_version(imgs[i][1].ih_ver, imgs[i][0].ih_ver) >= 0 THEN 1 ELSE 0
    ELSE FindSlotFrom(i, 0, BOOT_SLOT_NONE)

\* the availability of the slots is not looked at
FindSlotIgnoresAvailabilityBug(i) ==
    IF boot_compare_version(imgs[i][1].ih_ver, imgs[i][0].ih_ver) = 1 THEN 1 ELSE 0

\* the first available slot is taken, whatever the versions
FindSlotFirstAvailableBug(i) ==
    IF slot_usage[i].slot_available[0] THEN 0
    ELSE IF slot_usage[i].slot_available[1] THEN 1
    ELSE BOOT_SLOT_NONE

find_slot_with_highest_version(i) == FindSlotFrom(i, 0, BOOT_SLOT_NONE)

(***************************************************************************)
(* boot_rom_address_check: TRUE when the image of slot s of image i has    *)
(* IMAGE_F_ROM_FIXED set and was built for another offset than the slot's. *)
(***************************************************************************)
\* the load address is not compared
RomCheckIgnoresAddressBug(i, s) ==
    (imgs[i][s].ih_flags \div IMAGE_F_ROM_FIXED) % 2 = 1

boot_rom_address_check(i, s) ==
    /\ (imgs[i][s].ih_flags \div IMAGE_F_ROM_FIXED) % 2 = 1
    /\ imgs[i][s].ih_load_addr # SlotOff(i, s)

(***************************************************************************)
(* The slot-usage record after a slot is rejected: the slot is marked      *)
(* unavailable and active_slot is reset.                                   *)
(***************************************************************************)
RejectSlotOtherBug(u, s) ==
    [u EXCEPT !.slot_available = [t \in Slots |-> t # s], !.active_slot = BOOT_SLOT_NONE]

RejectSlot(u, s) ==
    [u EXCEPT !.slot_available[s] = FALSE, !.active_slot = BOOT_SLOT_NONE]

(***************************************************************************)
(* boot_select_or_erase on a slot whose flash content is fl; wr_ok is the  *)
(* result of boot_write_copy_done.  Yields the return code, the trailer    *)
(* read into swap_state, the flash content afterwards, the calls made and  *)
(* whether an assert stopped the program.                                  *)
(*                                                                         *)
(* boot_read_swap_state and boot_scramble_region are followed by           *)
(* assert(rc == 0).  A failed read leaves the record as memset left it;    *)
(* a failed scramble leaves the slot as it was.  With NDEBUG the function  *)
(* goes on with the rc of the failed call overwritten.                     *)
(***************************************************************************)
GateErasesNoCopyDoneBug(sw) == sw.magic # "good"

\* the test of image_ok is inverted
GateErasesConfirmedBug(sw) ==
    \/ sw.magic # "good"
    \/ (sw.copy_done = "set" /\ sw.image_ok = "set")

\* a copy_done flag that reads 'bad' counts as set
GateErasesBadCopyDoneBug(sw) ==
    \/ sw.magic # "good"
    \/ (sw.copy_done # "unset" /\ sw.image_ok # "set")

GateErases(sw) ==
    \/ sw.magic # "good"
    \/ (sw.copy_done = "set" /\ sw.image_ok # "set")

\* memset, then boot_read_swap_state
ReadSwapState(i, s, fl) ==
    IF Fails("f_read_swap", i, s) THEN ZeroSwapState
    ELSE [magic |-> fl.magic, copy_done |-> fl.copy_done, image_ok |-> fl.image_ok]

\* boot_select_or_erase up to the test of the trailer: the trailer is read;
\* when it is to be erased, the slot is scrambled
GateReadAndErase(i, s, fl) ==
    LET rd_ok == ~Fails("f_read_swap", i, s)
        er_ok == ~Fails("f_scramble", i, s)
        sw == ReadSwapState(i, s, fl)
        rd == <<Log("boot_read_swap_state", i, s, IF rd_ok THEN 0 ELSE 1)>>
    IN  IF ~rd_ok /\ cfg.asserts
        THEN [rc |-> BOOT_EFLASH, abort |-> TRUE, swap_state |-> sw, fl |-> fl, ev |-> rd]
        ELSE IF GateErases(sw)
        THEN [rc |-> -1, abort |-> ~er_ok /\ cfg.asserts, swap_state |-> sw,
              fl |-> IF er_ok THEN ErasedSlot ELSE fl,
              ev |-> rd \o <<Log("boot_scramble_region", i, s, IF er_ok THEN 0 ELSE 1)>>]
        ELSE [rc |-> 0, abort |-> FALSE, swap_state |-> sw, fl |-> fl, ev |-> rd]

\* the return code of a failed boot_write_copy_done is passed on
WriteFailureRejectsBug(i, s, fl, wr_ok) ==
    LET g == GateReadAndErase(i, s, fl)
    IN  IF g.rc = 0 /\ g.swap_state.copy_done # "set"
        THEN [g EXCEPT !.rc = IF wr_ok THEN 0 ELSE BOOT_EFLASH,
                       !.fl = IF wr_ok THEN [fl EXCEPT !.copy_done = "set"] ELSE fl,
                       !.ev = g.ev \o <<Log("boot_write_copy_done", i, s,
                                            IF wr_ok THEN 0 ELSE 1)>>]
        ELSE g

boot_select_or_erase(i, s, fl, wr_ok) ==
    LET g == GateReadAndErase(i, s, fl)
    IN  IF g.rc = 0 /\ g.swap_state.copy_done # "set"
        THEN [g EXCEPT !.fl = IF wr_ok THEN [fl EXCEPT !.copy_done = "set"] ELSE fl,
                       !.ev = g.ev \o <<Log("boot_write_copy_done", i, s,
                                            IF wr_ok THEN 0 ELSE 1)>>]
        ELSE g

(***************************************************************************)
(* boot_load_image_to_sram and boot_validate_slot.                         *)
(***************************************************************************)
\* The image of slot s as it is in SRAM after a successful copy.
RamCopy(s, fl) == [slot |-> s, whole |-> TRUE, sig_ok |-> fl.sig_ok, deps |-> fl.deps]

\* What a copy that stopped on the way has written to SRAM: a part of the
\* image of slot s, which is no image.
PartialCopy(s) == [slot |-> s, whole |-> FALSE, sig_ok |-> FALSE, deps |-> <<>>]

\* boot_load_image_to_sram copies the image of slot s to SRAM.  It fails
\* when the destination is too small, the header's sizes are inconsistent
\* (nothing is copied: the SRAM is as before) or the source is unreadable
\* (part: what was copied until then stays in SRAM).
boot_load_image_to_sram(s, fl, ram, part) ==
    IF fl.load_ok THEN [rc |-> 0, ram |-> RamCopy(s, fl)]
    ELSE [rc |-> 1, ram |-> IF part THEN PartialCopy(s) ELSE ram]

\* the validator leaves a slot that fails in flash
ValidateKeepsSlotBug(fl, ram) ==
    [rc |-> IF (IF IsRam THEN ram.sig_ok ELSE fl.sig_ok) THEN 0 ELSE 1, fl |-> fl]

\* boot_validate_slot: in RAM_LOAD the image is authenticated in RAM, in
\* DIRECT_XIP in flash.  A slot whose image fails is erased, trailer
\* included ("in case the validation fails, the entire image slot will be
\* erased (including the trailer)", boot_select_or_erase).
boot_validate_slot(fl, ram) ==
    LET ok == IF IsRam THEN ram.sig_ok ELSE fl.sig_ok
    IN  [rc |-> IF ok THEN 0 ELSE 1, fl |-> IF ok THEN fl ELSE ErasedSlot]


(***************************************************************************)
(* context_boot_go_*: boot_open_all_flash_areas.                           *)
(***************************************************************************)
AfterOpenClosesBug(ok) == IF ok THEN "scan" ELSE "close"

\* where the orchestrator goes after the open: "goto out" skips the close
AfterOpen(ok) == IF ok THEN "scan" ELSE "out"

OpenAreas ==
    /\ pc = "open"
    /\ LET ok == ~Fails("f_open", 0, 0)
       IN  /\ rc' = IF ok THEN 0 ELSE BOOT_EFLASH
           /\ pc' = AfterOpen(ok)
           /\ calls' = Append(calls, Log("boot_open_all_flash_areas", 0, 0,
                                         IF ok THEN 0 ELSE BOOT_EFLASH))
    /\ UNCHANGED <<cfg, img_mask, flash, flash0, imgs, slot_usage, sram, curr_img,
                   fih_rc, rsp, boot_result, outer_iter, faults>>

(***************************************************************************)
(* boot_get_slot_usage: for every non-masked image read the headers of     *)
(* both slots into the cache, set slot_available from the header check and *)
(* reset active_slot.  The scan stops at the first image whose header      *)
(* read fails; the images before it have been scanned.  On success the     *)
(* selector's IMAGES_ITER starts again at image 0.                         *)
(***************************************************************************)
ScannedHdr(fl) ==
    [ih_ver |-> fl.ih_ver, ih_flags |-> fl.ih_flags, ih_load_addr |-> fl.ih_load_addr]

\* the result of boot_check_header_valid is not looked at
ScannedUsageAllAvailableBug(u, i) ==
    [u EXCEPT !.slot_available = [s \in Slots |-> TRUE],
              !.active_slot = BOOT_SLOT_NONE]

ScannedUsage(u, i) ==
    [u EXCEPT !.slot_available = [s \in Slots |-> flash[i][s].hdr_ok],
              !.active_slot = BOOT_SLOT_NONE]

RECURSIVE ReadHeaderCalls(_, _)
ReadHeaderCalls(k, fail_at) ==
    IF k >= cfg.nimg \/ k > fail_at THEN <<>>
    ELSE IF Masked(k) THEN ReadHeaderCalls(k + 1, fail_at)
    ELSE <<Log("boot_read_image_headers", k, 0, IF k = fail_at THEN BOOT_EFLASH ELSE 0)>>
         \o ReadHeaderCalls(k + 1, fail_at)

\* the first non-masked image >= k whose header read fails, or cfg.nimg
RECURSIVE FirstHeaderFailure(_)
FirstHeaderFailure(k) ==
    IF k >= cfg.nimg THEN cfg.nimg
    ELSE IF ~Masked(k) /\ Fails("f_headers", k, 0) THEN k
    ELSE FirstHeaderFailure(k + 1)

boot_get_slot_usage ==
    /\ pc = "scan"
    /\ LET fail_at == FirstHeaderFailure(0)
           scanned(i) == ~Masked(i) /\ i < fail_at
           failed == fail_at < cfg.nimg
        IN  /\ imgs' = [i \in Images |->
                          IF scanned(i) THEN [s \in Slots |-> ScannedHdr(flash[i][s])]
                          ELSE imgs[i]]
            /\ slot_usage' = [i \in Images |->
                          IF scanned(i) THEN ScannedUsage(slot_usage[i], i)
                          ELSE slot_usage[i]]
            /\ rc' = IF failed THEN BOOT_EFLASH ELSE 0
            /\ pc' = IF failed THEN "close" ELSE "select"
            /\ outer_iter' = IF failed THEN outer_iter ELSE 1
            /\ calls' = calls \o ReadHeaderCalls(0, fail_at)
            \* "return rc" inside IMAGES_ITER leaves the loop variable at the
            \* image whose headers could not be read
            /\ curr_img' = IF failed THEN fail_at ELSE 0
    /\ UNCHANGED <<cfg, img_mask, flash, flash0, sram, fih_rc, rsp, boot_result, faults>>

(***************************************************************************)
(* boot_load_and_validate_images_xip / _ram: one pass of the while (true)  *)
(* loop for the current image.                                             *)
(*                                                                         *)
(* A candidate slot goes through the stages in the order of the code; a    *)
(* stage record holds the slot-usage record, the flash content of the      *)
(* slot, the RAM copy, the calls made, whether the slot was rejected and   *)
(* whether an assert stopped the program.                                  *)
(***************************************************************************)
Rejected(st, s, ev) ==
    [st EXCEPT !.su = RejectSlot(st.su, s), !.ev = st.ev \o ev, !.rej = TRUE]

\* DIRECT_XIP: ROM address check
RomStage(i, s, st) ==
    IF st.rej \/ ~IsXip THEN st
    ELSE IF boot_rom_address_check(i, s) THEN Rejected(st, s, <<>>) ELSE st

\* revert builds: boot_select_or_erase; after a failed assert no later stage
\* runs and the slot-usage record is not written any more
GateStage(i, s, st) ==
    IF st.rej \/ ~cfg.revert THEN st
    ELSE LET g == boot_select_or_erase(i, s, st.fl, ~Fails("f_copy_done", i, s))
             st1 == [st EXCEPT !.su.swap_state = g.swap_state, !.fl = g.fl]
         IN  IF g.abort THEN [st1 EXCEPT !.ev = st.ev \o g.ev, !.rej = TRUE, !.abort = TRUE]
             ELSE IF g.rc # 0 THEN Rejected(st1, s, g.ev)
             ELSE [st1 EXCEPT !.ev = st.ev \o g.ev]

\* The flash content of a slot after somebody with write access to the
\* (external) flash has replaced the image in it.
RewrittenSlot(fl) == [fl EXCEPT !.sig_ok = ~@, !.deps = <<>>]

\* RAM_LOAD: boot_load_image_to_sram, boot_remove_image_from_flash on failure.
\* With the input "f_tamper" the flash of the slot is rewritten right after
\* the copy to SRAM.
LoadStage(i, s, st) ==
    IF st.rej \/ ~IsRam THEN st
    ELSE LET l == boot_load_image_to_sram(s, st.fl, st.ram, Fails("f_load_part", i, s))
         IN  IF l.rc = 0
             THEN [st EXCEPT !.ram = l.ram,
                             !.fl = IF Fails("f_tamper", i, s) THEN RewrittenSlot(st.fl)
                                    ELSE st.fl,
                             !.ev = st.ev \o <<Log("boot_load_image_to_sram", i, s, 0)>>]
             ELSE Rejected([st EXCEPT !.fl = ErasedSlot, !.ram = l.ram], s,
                           <<Log("boot_load_image_to_sram", i, s, l.rc),
                             Log("boot_remove_image_from_flash", i, s, 0)>>)

ValidateFailureKeepsSlotBug(i, s, st) ==
    IF st.rej THEN st
    ELSE [st EXCEPT !.fl = boot_validate_slot(st.fl, st.ram).fl,
                    !.ev = st.ev \o
            <<Log("boot_validate_slot", i, s, boot_validate_slot(st.fl, st.ram).rc)>>]

\* an image that fails the validation stays in RAM
ValidateFailureKeepsRamCopyBug(i, s, st) ==
    IF st.rej THEN st
    ELSE IF boot_validate_slot(st.fl, st.ram).rc = 0
         THEN [st EXCEPT !.ev = st.ev \o <<Log("boot_validate_slot", i, s, 0)>>]
         ELSE Rejected([st EXCEPT !.fl = boot_validate_slot(st.fl, st.ram).fl], s,
                       <<Log("boot_validate_slot", i, s, 1)>>)

\* boot_validate_slot; in RAM_LOAD boot_remove_image_from_sram on failure
ValidateStage(i, s, st) ==
    IF st.rej THEN st
    ELSE LET v == boot_validate_slot(st.fl, st.ram)
         IN  IF v.rc = 0
             THEN [st EXCEPT !.ev = st.ev \o <<Log("boot_validate_slot", i, s, 0)>>]
             ELSE IF IsRam
                  THEN Rejected([st EXCEPT !.fl = v.fl, !.ram = NoRamImage], s,
                                <<Log("boot_validate_slot", i, s, v.rc),
                                  Log("boot_remove_image_from_sram", i, s, 0)>>)
                  ELSE Rejected([st EXCEPT !.fl = v.fl], s,
                                <<Log("boot_validate_slot", i, s, v.rc)>>)

\* the image is validated before it is copied to SRAM
TrySlotValidatesBeforeLoadBug(i, s) ==
    LET st0 == [su  |-> [slot_usage[i] EXCEPT !.active_slot = s],
                fl  |-> flash[i][s],
                ram |-> sram[i],
                ev  |-> <<Log("active_slot", i, s, 0)>>,
                rej |-> FALSE,
                abort |-> FALSE]
    IN  LoadStage(i, s, ValidateStage(i, s, GateStage(i, s, RomStage(i, s, st0))))

\* The candidate slot s of the non-masked image i, through all the stages.
TrySlot(i, s) ==
    LET st0 == [su  |-> [slot_usage[i] EXCEPT !.active_slot = s],
                fl  |-> flash[i][s],
                ram |-> sram[i],
                ev  |-> <<Log("active_slot", i, s, 0)>>,
                rej |-> FALSE,
                abort |-> FALSE]
    IN  ValidateStage(i, s, LoadStage(i, s, GateStage(i, s, RomStage(i, s, st0))))

\* the dependency check is left out
AfterSelectSkipsDepsBug == "update"

\* "break": on to the next image; after the last one the selector returns
\* FIH_SUCCESS to the orchestrator.
AfterSelect == IF cfg.nimg > 1 THEN "deps" ELSE "update"

SelectBreak(i) ==
    IF i + 1 < cfg.nimg
    THEN /\ pc' = "select"
         /\ curr_img' = i + 1
         /\ fih_rc' = fih_rc
    ELSE /\ pc' = AfterSelect
         /\ curr_img' = IF cfg.nimg > 1 THEN 0 ELSE NextUnmasked(0)
         /\ fih_rc' = FIH_SUCCESS

\* only a committed primary slot is kept
AlreadyActiveOnlyPrimaryBug(u) == u.active_slot = BOOT_SLOT_PRIMARY

\* "A slot is already active, go to next image."
AlreadyActive(u) == u.active_slot # BOOT_SLOT_NONE

(***************************************************************************)
(* BOOT_HOOK_FIND_SLOT_CALL(boot_find_next_slot_hook, BOOT_HOOK_REGULAR,   *)
(* ...): without hooks the call is BOOT_HOOK_REGULAR.  A hook answers      *)
(* BOOT_HOOK_REGULAR or gives the slot itself, which may be any slot or    *)
(* BOOT_SLOT_NONE; the model's hook gives image i one of the slots listed  *)
(* for it in the inputs, and answers BOOT_HOOK_REGULAR when none is.       *)
(***************************************************************************)
HooksCompiled == \E f \in faults : f[1] \in {"hook_on", "hook"}
HookAnswers(i) == {f[3] : f \in {g \in faults : g[1] = "hook" /\ g[2] = i}}

\* the values active_slot can have after the hook call and the fall-back to
\* find_slot_with_highest_version
CandidateSlots(i) ==
    IF HookAnswers(i) = {} THEN {find_slot_with_highest_version(i)}
    ELSE HookAnswers(i)

HookCall(i, cand) ==
    IF HooksCompiled
    THEN <<Log("boot_find_next_slot_hook", i, IF HookAnswers(i) = {} THEN 0 ELSE cand,
               IF HookAnswers(i) = {} THEN BOOT_HOOK_REGULAR ELSE 0)>>
    ELSE <<>>

\* how often slot s of image i has been taken as the candidate so far
TimesTried(i, s) ==
    Cardinality({k \in DOMAIN calls : calls[k] = Log("active_slot", i, s, 0)})

SelectStep ==
    /\ pc = "select"
    /\ LET i == curr_img
           u == slot_usage[i]
       IN  IF AlreadyActive(u)
           THEN \* a slot is already active, go to next image
                /\ SelectBreak(i)
                /\ UNCHANGED <<slot_usage, flash, sram, calls>>
           ELSE \* a hook that gives a rejected slot again keeps the loop
                \* going: a slot is followed through IterCap rounds
                \E cand \in {a \in CandidateSlots(i) :
                                a \in Slots => TimesTried(i, a) < IterCap} :
                IF cand = BOOT_SLOT_NONE
                THEN \* no slot to load for the image: FIH_RET(FIH_FAILURE)
                     /\ pc' = "close"
                     /\ fih_rc' = FIH_FAILURE
                     /\ calls' = calls \o HookCall(i, cand) \o <<Log("no_slot", i, 0, 1)>>
                     /\ UNCHANGED <<slot_usage, flash, sram, curr_img>>
                ELSE IF Masked(i)
                THEN \* the active slot is saved, then "continue"
                     /\ slot_usage' = [slot_usage EXCEPT ![i].active_slot = cand]
                     /\ calls' = calls \o HookCall(i, cand)
                                       \o <<Log("active_slot", i, cand, 0)>>
                     /\ UNCHANGED <<flash, sram, pc, curr_img, fih_rc>>
                ELSE LET st == TrySlot(i, cand)
                     IN  /\ slot_usage' = [slot_usage EXCEPT ![i] = st.su]
                         /\ flash' = [flash EXCEPT ![i][cand] = st.fl]
                         /\ sram' = [sram EXCEPT ![i] = st.ram]
                         /\ IF st.abort
                            THEN \* assert: the program is aborted
                                 /\ calls' = calls \o HookCall(i, cand) \o st.ev
                                 /\ pc' = "abort"
                                 /\ UNCHANGED <<curr_img, fih_rc>>
                            ELSE /\ calls' = calls \o HookCall(i, cand) \o st.ev
                                                   \o (IF st.rej
                                                       THEN <<Log("reject", i, cand, 0)>>
                                                       ELSE <<>>)
                                 /\ IF st.rej
                                    THEN \* "continue"
                                         UNCHANGED <<pc, curr_img, fih_rc>>
                                    ELSE SelectBreak(i)
    /\ UNCHANGED <<cfg, img_mask, flash0, imgs, rc, rsp, boot_result, outer_iter, faults>>


(***************************************************************************)
(* Dependency verification (BOOT_IMAGE_NUMBER > 1).                        *)
(*                                                                         *)
(* The TLV I/O faults of a slot: bootutil_tlv_iter_begin fails,            *)
(* bootutil_tlv_iter_next reports an error, LOAD_IMAGE_DATA of an entry    *)
(* fails.  When the active slot of the target is no slot index, the read   *)
(* of imgs[target][active_slot] gives the header that lies at that place   *)
(* of the imgs array (for image 0 of two: a header of image 1); when the   *)
(* place is past the end of imgs, oob is the outcome of the read: any      *)
(* version, the version of zeroed memory included, or a fault that kills   *)
(* the process.                                                            *)
(***************************************************************************)
OobFault == <<>>
\* not a return code: the process was killed in the check
Killed == -BOOT_SLOT_NONE

\* imgs is one array of BOOT_IMAGE_NUMBER * BOOT_NUM_SLOTS headers: the
\* element imgs[t][a] is element t * BOOT_NUM_SLOTS + a of it, also when a
\* is no slot index
FlatIndex(t, a) == t * BOOT_NUM_SLOTS + a
InsideImgs(t, a) == FlatIndex(t, a) < cfg.nimg * BOOT_NUM_SLOTS
ImgsAt(n) == imgs[n \div BOOT_NUM_SLOTS][n % BOOT_NUM_SLOTS]

\* what a read of imgs[t][active_slot] past the end of imgs can give
OobVersions ==
    IF \E i \in Images : ~InsideImgs(i, slot_usage[i].active_slot)
    THEN Versions \cup {ZeroVersion, OobFault}
    ELSE {ZeroVersion}

SlotDeps(i, slot) == IF IsRam THEN sram[i].deps ELSE flash[i][slot].deps

\* the version of the primary slot of the target is compared, whichever
\* slot of the target is active
DependencyAgainstPrimaryBug(dep, oob) ==
    LET cmp == boot_compare_version(imgs[dep.image_id][BOOT_SLOT_PRIMARY].ih_ver,
                                    dep.min_ver)
    IN  IF cmp >= 0 THEN 0 ELSE cmp

\* boot_verify_slot_dependency_xip_ram: 0 when the active slot of the
\* target image carries a version >= the minimum, the comparison otherwise
boot_verify_slot_dependency_xip_ram(dep, oob) ==
    LET dep_slot == slot_usage[dep.image_id].active_slot
        inside == InsideImgs(dep.image_id, dep_slot)
        dep_version == IF inside
                       THEN ImgsAt(FlatIndex(dep.image_id, dep_slot)).ih_ver
                       ELSE oob
        cmp == boot_compare_version(dep_version, dep.min_ver)
    IN  IF ~inside /\ oob = OobFault THEN Killed
        ELSE IF cmp >= 0 THEN 0 ELSE cmp

\* the while (true) loop of boot_verify_slot_dependencies_xip_ram from
\* entry k of the dependency TLVs on
RECURSIVE VerifyEntriesFrom(_, _, _, _, _)
VerifyEntriesFrom(i, slot, deps, k, oob) ==
    IF Fails("f_tlv_next", i, slot) THEN -1
    ELSE IF k > Len(deps) THEN 0
    ELSE IF deps[k].len # DEP_SIZE THEN BOOT_EBADIMAGE
    ELSE IF Fails("f_tlv_read", i, slot) THEN BOOT_EFLASH
    ELSE IF deps[k].image_id >= cfg.nimg THEN BOOT_EBADARGS
    ELSE IF boot_verify_slot_dependency_xip_ram(deps[k], oob) # 0
         THEN boot_verify_slot_dependency_xip_ram(deps[k], oob)
         ELSE VerifyEntriesFrom(i, slot, deps, k + 1, oob)

boot_verify_slot_dependencies_xip_ram(i, slot, oob) ==
    IF Fails("f_tlv_begin", i, slot) THEN -1
    ELSE VerifyEntriesFrom(i, slot, SlotDeps(i, slot), 1, oob)

\* IMAGES_ITER of boot_verify_dependencies_xip_ram from image k on, with
\* the rc so far: the rc returned and the image whose slot is rejected
\* (cfg.nimg when none is)
RECURSIVE VerifyImagesFrom(_, _, _)
VerifyImagesFrom(k, rc0, oob) ==
    IF k >= cfg.nimg THEN [rc |-> rc0, img |-> cfg.nimg]
    ELSE IF Masked(k) THEN VerifyImagesFrom(k + 1, rc0, oob)
    ELSE LET r == boot_verify_slot_dependencies_xip_ram(k, slot_usage[k].active_slot, oob)
         IN  IF r # 0 THEN [rc |-> r, img |-> k]
             ELSE VerifyImagesFrom(k + 1, r, oob)

\* a dependency on an image the build does not have ends the boot
AfterDepsBadArgsFatalBug(r) ==
    IF r = 0 THEN "update" ELSE IF r = BOOT_EBADARGS THEN "close" ELSE "select"

\* the orchestrator's loop: "continue" on a nonzero rc, "break" on zero
AfterDeps(r) == IF r # 0 THEN "select" ELSE "update"

\* rc starts as "success"
InitialRcZeroBug == Len(<<>>)

\* "int rc = -1;": the value returned when the loop checks no image
InitialRc == -1

boot_verify_dependencies_xip_ram ==
    /\ pc = "deps"
    /\ \E oob \in OobVersions :
        LET v == VerifyImagesFrom(0, InitialRc, oob)
            i == v.img
            active_slot == slot_usage[i].active_slot
        IN  IF v.rc = Killed
            THEN \* the read faulted: no return
                 /\ pc' = "abort"
                 /\ UNCHANGED <<slot_usage, sram, calls, rc, curr_img, outer_iter>>
            ELSE
            /\ IF i < cfg.nimg
               THEN \* with a hook that gives the rejected slot again the
                    \* rejections go on: they are followed through IterCap
                    \* passes
                    /\ outer_iter < IterCap
                    /\ slot_usage' = [slot_usage EXCEPT ![i] = RejectSlot(@, active_slot)]
                    /\ sram' = IF IsRam THEN [sram EXCEPT ![i] = NoRamImage] ELSE sram
                    /\ calls' = calls
                           \o <<Log("boot_verify_slot_dependencies", i, active_slot, v.rc)>>
                           \o (IF IsRam
                               THEN <<Log("boot_remove_image_from_sram", i, active_slot, 0)>>
                               ELSE <<>>)
                           \o <<Log("reject", i, active_slot, v.rc)>>
               ELSE /\ UNCHANGED <<slot_usage, sram>>
                    /\ calls' = IF v.rc = 0 \/ outer_iter < IterCap
                                THEN Append(calls, Log("boot_verify_dependencies", 0, 0, v.rc))
                                ELSE calls
            /\ rc' = v.rc
            /\ pc' = AfterDeps(v.rc)
            /\ curr_img' = IF AfterDeps(v.rc) = "select" THEN 0 ELSE NextUnmasked(0)
            /\ outer_iter' = IF AfterDeps(v.rc) = "select" /\ outer_iter < IterCap
                             THEN outer_iter + 1 ELSE outer_iter
    /\ UNCHANGED <<cfg, img_mask, flash, flash0, imgs, fih_rc, rsp, boot_result, faults>>

(***************************************************************************)
(* boot_update_hw_rollback_protection_xip_ram for the current image.       *)
(***************************************************************************)
UpdateGatedByCopyDoneBug(sw) ==
    (IsXip /\ cfg.revert) => sw.copy_done = "set"

\* With the revert mechanism of direct-xip the counter is raised only when
\* the image was confirmed (image_ok set in the swap state read last).
CounterUpdateAllowed(sw) ==
    (IsXip /\ cfg.revert) => sw.image_ok = "set"

CounterResult(i) ==
    IF Fails("f_counter", i, 0) THEN "update_failed"
    ELSE IF cfg.hw_lock /\ Fails("f_lock", i, 0) THEN "lock_failed"
    ELSE "ok"

boot_update_hw_rollback_protection_xip_ram ==
    /\ pc = "update"
    /\ LET i == curr_img
           s == slot_usage[i].active_slot
           entry == <<Log("boot_update_hw_rollback_protection", i, s, 0)>>
       IN  IF cfg.hw_rollback_prot /\ CounterUpdateAllowed(slot_usage[i].swap_state)
           THEN LET res == CounterResult(i) IN
                /\ calls' = calls \o entry
                     \o <<Log("boot_update_security_counter", i, s,
                              IF res = "update_failed" THEN 1 ELSE 0)>>
                     \o (IF res # "update_failed" /\ cfg.hw_lock
                         THEN <<Log("boot_nv_security_counter_lock", i, s,
                                    IF res = "lock_failed" THEN 1 ELSE 0)>>
                         ELSE <<>>)
                /\ rc' = IF res = "ok" THEN 0 ELSE BOOT_EFLASH
                /\ pc' = IF res = "ok" THEN "shared" ELSE "close"
                /\ fih_rc' = IF res = "ok" THEN fih_rc ELSE FIH_FAILURE
           ELSE /\ calls' = calls \o entry
                /\ rc' = 0
                /\ pc' = "shared"
                /\ fih_rc' = fih_rc
    /\ UNCHANGED <<cfg, img_mask, flash, flash0, imgs, slot_usage, sram, curr_img,
                   rsp, boot_result, outer_iter, faults>>

(***************************************************************************)
(* boot_add_shared_data for the current image, then on to the next         *)
(* non-masked image or to the response.                                    *)
(***************************************************************************)
AfterSharedFailureFillsBug(ok, next) ==
    IF next < cfg.nimg /\ ok THEN "update" ELSE "fill"

AfterShared(ok, next) ==
    IF ~ok THEN "close" ELSE IF next < cfg.nimg THEN "update" ELSE "fill"

boot_add_shared_data ==
    /\ pc = "shared"
    /\ LET i == curr_img
           ok == ~Fails("f_shared", i, 0)
           next == NextUnmasked(i + 1)
        IN  /\ calls' = Append(calls, Log("boot_add_shared_data", i,
                                          slot_usage[i].active_slot, IF ok THEN 0 ELSE 1))
            /\ rc' = IF ok THEN 0 ELSE BOOT_EFLASH
            /\ fih_rc' = IF ok THEN fih_rc ELSE FIH_FAILURE
            /\ pc' = AfterShared(ok, next)
            /\ curr_img' = IF ok /\ next < cfg.nimg THEN next ELSE i
    /\ UNCHANGED <<cfg, img_mask, flash, flash0, imgs, slot_usage, sram, rsp,
                   boot_result, outer_iter, faults>>

(***************************************************************************)
(* fill_rsp_xip_ram: the response of the first non-masked image.           *)
(***************************************************************************)
\* the image mask is not looked at
FirstEnabledImageIgnoresMaskBug ==
    CHOOSE i \in Images : \A j \in Images : i <= j

\* "Always boot from the first enabled image": BOOT_CURR_IMG after the
\* IMAGES_ITER that breaks at the first image that is not masked
FirstEnabledImage == NextUnmasked(0)

fill_rsp_xip_ram ==
    /\ pc = "fill"
    /\ LET i == FirstEnabledImage
       IN  IF i >= cfg.nimg
           THEN \* no image is active: the response is not filled
                /\ UNCHANGED <<rsp, calls>>
                /\ curr_img' = i
           ELSE LET active_slot == slot_usage[i].active_slot
                IN  /\ rsp' = [br_flash_dev_id |-> SlotDev(i, active_slot),
                               br_image_off    |-> SlotOff(i, active_slot),
                               br_hdr          |-> <<i, active_slot>>]
                    /\ calls' = Append(calls, Log("fill_rsp_xip_ram", i, active_slot, 0))
                    /\ curr_img' = i
    /\ pc' = "close"
    /\ UNCHANGED <<cfg, img_mask, flash, flash0, imgs, slot_usage, sram, rc, fih_rc,
                   boot_result, outer_iter, faults>>

(***************************************************************************)
(* close: boot_close_all_flash_areas; out: the value returned.             *)
(***************************************************************************)
boot_close_all_flash_areas ==
    /\ pc = "close"
    /\ calls' = Append(calls, Log("boot_close_all_flash_areas", 0, 0, 0))
    /\ pc' = "out"
    /\ UNCHANGED <<cfg, img_mask, flash, flash0, imgs, slot_usage, sram, curr_img, rc,
                   fih_rc, rsp, boot_result, outer_iter, faults>>

Return ==
    /\ pc = "out"
    /\ boot_result' = IF rc # 0 THEN FIH_FAILURE ELSE fih_rc
    /\ pc' = "done"
    /\ UNCHANGED <<cfg, img_mask, flash, flash0, imgs, slot_usage, sram, curr_img, rc,
                   fih_rc, rsp, outer_iter, calls, faults>>

Next ==
    \/ OpenAreas
    \/ boot_get_slot_usage
    \/ SelectStep
    \/ boot_verify_dependencies_xip_ram
    \/ boot_update_hw_rollback_protection_xip_ram
    \/ boot_add_shared_data
    \/ fill_rsp_xip_ram
    \/ boot_close_all_flash_areas
    \/ Return

Spec == Init /\ [][Next]_vars

(***************************************************************************)
(* Boots of the two-image builds without revert and rollback protection,   *)
(* whose inputs differ from the default in versions, dependency entries    *)
(* and the image mask, in at most MaxDeviations + 1 places.                *)
(***************************************************************************)
DepBuilds ==
    {[mode |-> m, revert |-> FALSE, hw_rollback_prot |-> FALSE, hw_lock |-> FALSE,
      asserts |-> TRUE, nimg |-> 2] : m \in {"DIRECT_XIP", "RAM_LOAD"}}

DepKinds == {"ih_ver", "deps", "deps_self", "deps_any", "img_mask"}

DepsInit ==
    \E c \in DepBuilds :
        \E ds \in [1 .. (MaxDeviations + 1) -> DevItems(c, DepKinds)] : InitWith(c, ds)

SpecDeps == DepsInit /\ [][Next]_vars

(***************************************************************************)
(* Boots of the two-image builds whose inputs differ from the default in   *)
(* malformed dependency entries, failing TLV reads, versions, dependency   *)
(* entries and signatures.                                                 *)
(***************************************************************************)
TlvKinds == {"deps_bad", "f_tlv", "ih_ver", "deps", "sig_ok", "hook"}

TlvInit ==
    \E c \in DepBuilds :
        \E ds \in [1 .. MaxDeviations -> DevItems(c, TlvKinds)] : InitWith(c, ds)

SpecTlv == TlvInit /\ [][Next]_vars

(***************************************************************************)
(* Boots of the RAM_LOAD builds, with slots whose flash is rewritten after *)
(* the copy to SRAM.                                                       *)
(***************************************************************************)
RamBuilds ==
    {[mode |-> "RAM_LOAD", revert |-> r, hw_rollback_prot |-> FALSE, hw_lock |-> FALSE,
      asserts |-> TRUE, nimg |-> n] : r \in BOOLEAN, n \in ImageNumbers}

RamKinds == {"hdr_ok", "ih_ver", "sig_ok", "load_ok", "copy_done", "image_ok", "f_tamper",
             "hook"}

RamInit ==
    \E c \in RamBuilds :
        \E ds \in [1 .. MaxDeviations -> DevItems(c, RamKinds)] : InitWith(c, ds)

SpecRamLoad == RamInit /\ [][Next]_vars

(***************************************************************************)
(* Two consecutive boots of a revert build.  After a boot that returned    *)
(* success the images run and the device resets: the flash keeps its       *)
(* content, the loader state is cleared.  The images that ran may have     *)
(* confirmed themselves (image_ok set in the trailer of their slots).      *)
(***************************************************************************)
Confirmed(fl) == [fl EXCEPT !.image_ok = "set"]

Reboot ==
    /\ pc = "done"
    /\ boot_result = FIH_SUCCESS
    /\ \A k \in DOMAIN calls : calls[k][1] # "reboot"
    /\ \E confirm \in BOOLEAN :
          /\ flash' = [i \in Images |-> [s \in Slots |->
                          IF confirm /\ ~Masked(i) /\ slot_usage[i].active_slot = s
                          THEN Confirmed(flash[i][s]) ELSE flash[i][s]]]
          /\ calls' = Append(calls, Log("reboot", 0, 0, IF confirm THEN 1 ELSE 0))
    /\ flash0' = flash'
    /\ imgs' = [i \in Images |-> [s \in Slots |-> ZeroHdr]]
    /\ slot_usage' = [i \in Images |-> ZeroUsage]
    /\ sram' = [i \in Images |-> NoRamImage]
    /\ pc' = "open"
    /\ curr_img' = 0
    /\ rc' = 0
    /\ fih_rc' = FIH_FAILURE
    /\ rsp' = RspUntouched
    /\ boot_result' = "none"
    /\ outer_iter' = 0
    /\ UNCHANGED <<cfg, img_mask, faults>>

RevertBuilds ==
    {[mode |-> m, revert |-> TRUE, hw_rollback_prot |-> FALSE, hw_lock |-> FALSE,
      asserts |-> a, nimg |-> n] :
        m \in {"DIRECT_XIP", "RAM_LOAD"}, a \in BOOLEAN, n \in ImageNumbers}

RebootKinds == {"hdr_ok", "ih_ver", "sig_ok", "copy_done", "image_ok", "f_copy_done",
                "f_gate", "hook"}

RebootInit ==
    \E c \in RevertBuilds :
        \E ds \in [1 .. MaxDeviations -> DevItems(c, RebootKinds)] : InitWith(c, ds)

NextReboot == Next \/ Reboot

SpecReboot == RebootInit /\ [][NextReboot]_vars

(***************************************************************************)
(* The revert gate on every trailer: one slot gets each of the 27 values   *)
(* of (magic, copy_done, image_ok); the other inputs are drawn as before.  *)
(***************************************************************************)
GateKinds == {"ih_ver", "sig_ok", "f_copy_done", "f_gate", "hook"}

TrailerItems(i, s) ==
    {<<<<"magic", i, s, m>>, <<"copy_done", i, s, cd>>, <<"image_ok", i, s, ok>>>> :
        m \in 1 .. 3, cd \in 1 .. 3, ok \in 1 .. 3}

GateInit ==
    \E c \in RevertBuilds :
        \E i \in 0 .. (c.nimg - 1) : \E s \in Slots :
            \E tr \in TrailerItems(i, s) :
                \E ds \in [1 .. (MaxDeviations - 1) -> DevItems(c, GateKinds)] :
                    InitWith(c, tr \o ds)

SpecGate == GateInit /\ [][Next]_vars

(***************************************************************************)
(* The ROM address check of DIRECT_XIP: the header of one slot gets each   *)
(* value of (IMAGE_F_ROM_FIXED, ih_load_addr); the other inputs are drawn  *)
(* as before.                                                              *)
(***************************************************************************)
XipBuilds ==
    {[mode |-> "DIRECT_XIP", revert |-> r, hw_rollback_prot |-> FALSE, hw_lock |-> FALSE,
      asserts |-> TRUE, nimg |-> n] : r \in BOOLEAN, n \in ImageNumbers}

RomKinds == {"ih_flags", "ih_ver", "sig_ok", "copy_done", "img_mask", "hook"}

RomItems(i, s) ==
    {<<<<"ih_flags", i, s, f>>, <<"ih_load_addr", i, s, t>>>> :
        f \in {0, IMAGE_F_ROM_FIXED}, t \in Slots}

RomInit ==
    \E c \in XipBuilds :
        \E i \in 0 .. (c.nimg - 1) : \E s \in Slots :
            \E rom \in RomItems(i, s) :
                \E ds \in [1 .. (MaxDeviations - 1) -> DevItems(c, RomKinds)] :
                    InitWith(c, rom \o ds)

SpecRom == RomInit /\ [][Next]_vars

(***************************************************************************)
(* The retry of the dependency loop: two images with unmet dependencies,   *)
(* dependencies on images the build does not have, malformed entries,      *)
(* failing TLV reads, masked images and a find-slot hook.                  *)
(***************************************************************************)
RetryKinds == {"ih_ver", "deps", "deps_bad", "img_mask", "f_tlv", "hook"}

RetryBuilds ==
    {[mode |-> m, revert |-> r, hw_rollback_prot |-> FALSE, hw_lock |-> FALSE,
      asserts |-> TRUE, nimg |-> 2] : m \in {"DIRECT_XIP", "RAM_LOAD"}, r \in BOOLEAN}

RetryInit ==
    \E c \in RetryBuilds :
        \/ \E ds \in [1 .. MaxDeviations -> DevItems(c, RetryKinds)] : InitWith(c, ds)
        \/ MaskedTargetInit(c, RetryKinds)

SpecRetry == RetryInit /\ [][Next]_vars

(***************************************************************************)
(* Masked images: boot_get_slot_usage does not write the slot-usage record *)
(* and the header cache of a masked image, so they hold what the memory    *)
(* held on entry: zeroes, or any other value.                              *)
(***************************************************************************)
MaskKinds == {"img_mask", "garbage", "deps", "hdr_ok"}

MaskInit ==
    \E c \in DepBuilds :
        \/ \E ds \in [1 .. MaxDeviations -> DevItems(c, MaskKinds)] : InitWith(c, ds)
        \/ MaskedTargetInit(c, MaskKinds)

SpecMasked == MaskInit /\ [][Next]_vars

(***************************************************************************)
(* The select / invalidate / retry loop on every combination of versions,  *)
(* dependencies and validity of the four slots of two images: each slot    *)
(* has a version in Majors, no dependency or one on the other image, and   *)
(* an image that passes the validation or does not.                        *)
(***************************************************************************)
SlotItems(i, s) ==
    {<<v, d, g>> :
        v \in {<<"ih_ver", i, s, m>> : m \in Majors},
        d \in {NoDev} \cup {<<"deps", i, s, <<1 - i, m>> >> : m \in Majors \ {1}},
        g \in {NoDev, <<"sig_ok", i, s, FALSE>>}}

GreedyInit ==
    \E c \in DepBuilds :
        \E a \in SlotItems(0, 0) : \E b \in SlotItems(0, 1) :
            \E d \in SlotItems(1, 0) : \E e \in SlotItems(1, 1) :
                InitWith(c, a \o b \o d \o e)

SpecGreedy == GreedyInit /\ [][Next]_vars

(***************************************************************************)
(* An image without a valid header: both slots of one image have a header  *)
(* that does not pass boot_check_header_valid; the other inputs are drawn  *)
(* as before.                                                              *)
(***************************************************************************)
NoHeaderInit ==
    \E c \in Builds :
        \E i \in 0 .. (c.nimg - 1) :
            \E ds \in [1 .. (MaxDeviations - 1) -> DevItems(c, MainKinds)] :
                InitWith(c, <<<<"hdr_ok", i, 0, FALSE>>, <<"hdr_ok", i, 1, FALSE>>>> \o ds)

SpecNoHeader == NoHeaderInit /\ [][Next]_vars


(***************************************************************************)
(* Properties.                                                             *)
(***************************************************************************)
Has(e) == \E k \in DOMAIN calls : calls[k] = e
Pos(op, i) == {k \in DOMAIN calls : calls[k][1] = op /\ calls[k][2] = i}
PosOf(op) == {k \in DOMAIN calls : calls[k][1] = op}

BootSucceeded == pc = "done" /\ boot_result = FIH_SUCCESS
BootFailed == pc = "done" /\ boot_result = FIH_FAILURE
\* boot_open_all_flash_areas has succeeded
Opened == Has(Log("boot_open_all_flash_areas", 0, 0, 0))
\* boot_get_slot_usage has read the headers of image i
Scanned(i) == Has(Log("boot_read_image_headers", i, 0, 0))
ActiveSlot(i) == slot_usage[i].active_slot

\* Slot a of image i passed boot_validate_slot after the last time
\* active_slot of image i was written, and that write set it to a.
ValidatedSinceSet(i, a) ==
    \E k \in DOMAIN calls : \E v \in DOMAIN calls :
        /\ k < v
        /\ calls[k] = Log("active_slot", i, a, 0)
        /\ calls[v] = Log("boot_validate_slot", i, a, 0)
        /\ \A m \in DOMAIN calls :
              m > k => ~(calls[m][2] = i /\ calls[m][1] \in {"active_slot", "reject"})

\* C1: when boot_go returns success, every non-masked image has an active
\* slot 0 or 1, and that slot passed boot_validate_slot in this boot after
\* the last time the image's active_slot was set.
C1_SuccessMeansValidated ==
    BootSucceeded =>
        \A i \in Images :
            ~Masked(i) => /\ ActiveSlot(i) \in Slots
                          /\ ValidatedSinceSet(i, ActiveSlot(i))

\* a boot that succeeds after a slot failed validation and was rejected
C1_Witness ==
    /\ BootSucceeded
    /\ \E i \in Images, s \in Slots :
          /\ Has(Log("boot_validate_slot", i, s, 1))
          /\ ActiveSlot(i) = 1 - s

\* C2: after the header scan, slot_available of any (image, slot) never
\* goes from false to true.
C2_AvailabilityMonotone ==
    [][pc \notin {"open", "scan"} =>
          \A i \in Images, s \in Slots :
              slot_usage'[i].slot_available[s] => slot_usage[i].slot_available[s]]_vars

\* a slot that was available after the scan has been marked unavailable,
\* after another slot of the image had been marked unavailable before
C2_Witness ==
    \E i \in Images :
        /\ ~Masked(i) /\ Scanned(i)
        /\ flash0[i][0].hdr_ok /\ ~flash0[i][1].hdr_ok
        /\ ~slot_usage[i].slot_available[0]
        /\ pc = "done"

\* boot_get_slot_usage has returned success
ScanFinished ==
    /\ Opened
    /\ pc \notin {"open", "scan"}
    /\ \A j \in Images : ~Masked(j) => Scanned(j)

\* C3 as stated: in every reachable state (here: every state after the
\* header scan), an active slot 0 or 1 of any image is a slot marked
\* available.
C3_AsStated ==
    ScanFinished =>
        \A i \in Images, s \in Slots :
            ActiveSlot(i) = s => slot_usage[i].slot_available[s]

\* C3 amended: for a non-masked image whose headers were scanned and whose
\* candidates come from find_slot_with_highest_version (no hook gives a
\* slot for it), the active slot is a slot marked available, and a slot is
\* never made the candidate again after it was rejected.
C3_ActiveIsAvailable ==
    \A i \in Images :
        (~Masked(i) /\ Scanned(i) /\ HookAnswers(i) = {}) =>
            /\ \A s \in Slots : ActiveSlot(i) = s => slot_usage[i].slot_available[s]
            /\ \A k \in Pos("reject", i) : \A m \in Pos("active_slot", i) :
                  (m > k) => calls[m][3] # calls[k][3]

\* an image whose slot was rejected has its other slot active
C3_Witness ==
    \E i \in Images, s \in Slots :
        /\ ~Masked(i)
        /\ Pos("reject", i) # {}
        /\ ~slot_usage[i].slot_available[s]
        /\ ActiveSlot(i) = 1 - s
        /\ flash0[i][s].hdr_ok

\* C4: the outer select-then-verify-dependencies loop runs at most
\* 2 * BOOT_IMAGE_NUMBER times (and so the orchestrator terminates).
C4_AtMostTwoPassesPerImage == outer_iter <= 2 * cfg.nimg

\* The admissibility filters and the validation, on the flash content at
\* boot entry: the ROM address check, the revert gate, the RAM load and
\* boot_validate_slot.
WouldPass(i, s) ==
    LET fl == flash0[i][s]
    IN  /\ fl.hdr_ok
        /\ IsXip => ~((fl.ih_flags \div IMAGE_F_ROM_FIXED) % 2 = 1
                      /\ fl.ih_load_addr # SlotOff(i, s))
        /\ cfg.revert => (/\ ~Fails("f_read_swap", i, s)
                          /\ fl.magic = "good"
                          /\ ~(fl.copy_done = "set" /\ fl.image_ok # "set"))
        /\ IsRam => fl.load_ok
        /\ fl.sig_ok

\* the active slot of image i carries the higher version, the primary
\* slot on a tie
HigherOrPrimary(i) ==
    LET a == ActiveSlot(i)
        c == boot_compare_version(flash0[i][a].ih_ver, flash0[i][1 - a].ih_ver)
    IN  c = 1 \/ (c = 0 /\ a = BOOT_SLOT_PRIMARY)

Committed(i) == ~Masked(i) /\ Scanned(i) /\ ActiveSlot(i) \in Slots

\* the dependency resolver has rejected a slot of image i in this boot
DependencyRejected(i) ==
    \E k \in Pos("boot_verify_slot_dependencies", i) : calls[k][4] # 0

\* the default find-slot policy: no hook gives a slot for image i
DefaultPolicy(i) == HookAnswers(i) = {}

\* the position of the first call at or after n that is not the hook call
AfterHook(n) ==
    IF n <= Len(calls) /\ calls[n][1] = "boot_find_next_slot_hook" THEN n + 1 ELSE n

\* slot s of image i was made the candidate once in the log
TriedOnce(i, s) == TimesTried(i, s) = 1

\* C5 as stated: under the default find-slot policy, if both slots of an
\* image pass every admissibility filter and the validation, the committed
\* slot has the higher version, and is the primary slot when the versions
\* are equal.
C5_AsStated ==
    \A i \in Images :
        (DefaultPolicy(i) /\ Committed(i) /\ WouldPass(i, 0) /\ WouldPass(i, 1))
            => HigherOrPrimary(i)

\* C5 amended: the same, as long as the dependency resolver has not
\* rejected a slot of the image.
C5_HigherVersionCommitted ==
    \A i \in Images :
        (DefaultPolicy(i) /\ Committed(i) /\ WouldPass(i, 0) /\ WouldPass(i, 1)
         /\ ~DependencyRejected(i))
            => HigherOrPrimary(i)

\* the secondary slot is committed because its version is higher
C5_Witness ==
    \E i \in Images :
        /\ DefaultPolicy(i) /\ Committed(i) /\ WouldPass(i, 0) /\ WouldPass(i, 1)
        /\ ActiveSlot(i) = 1
        /\ boot_compare_version(flash0[i][1].ih_ver, flash0[i][0].ih_ver) = 1
        /\ BootSucceeded

\* C6: when boot_go returns failure the response is as it was:
\* fill_rsp_xip_ram was not called.
C6_FailureLeavesResponse ==
    BootFailed => (rsp = RspUntouched /\ PosOf("fill_rsp_xip_ram") = {})

\* a boot that fails after every image was selected and verified
C6_Witness ==
    /\ BootFailed
    /\ PosOf("boot_add_shared_data") # {}
    /\ rsp = RspUntouched

\* C7: boot_close_all_flash_areas is called exactly once when the open
\* succeeded, whatever the exit path, and nothing is called after it; it
\* is not called when the open failed.
C7_CloseOnceAndLast ==
    LET closes == PosOf("boot_close_all_flash_areas")
    IN  /\ Cardinality(closes) <= 1
        /\ closes # {} => (Opened /\ closes = {Len(calls)})
        /\ pc = "done" => (Opened <=> Cardinality(closes) = 1)

\* a failed boot that opened the flash areas and closed them
C7_Witness ==
    /\ BootFailed
    /\ Opened
    /\ PosOf("no_slot") # {}
    /\ calls[Len(calls)][1] = "boot_close_all_flash_areas"

\* C8: when the first security counter write happens, every non-masked
\* image has a validated active slot and (with more than one image) the
\* dependency check has succeeded; no slot is rejected and no active_slot
\* is written afterwards.
C8_CounterAfterSelection ==
    \A k \in PosOf("boot_update_security_counter") :
        /\ \A i \in Images :
              ~Masked(i) => /\ ActiveSlot(i) \in Slots
                            /\ ValidatedSinceSet(i, ActiveSlot(i))
        /\ \A m \in PosOf("active_slot") \cup PosOf("reject") : m < k
        /\ cfg.nimg > 1 =>
              \E d \in PosOf("boot_verify_dependencies") :
                  /\ d < k
                  /\ calls[d][4] = 0
                  /\ \A m \in PosOf("active_slot") \cup PosOf("reject") : m < d

\* the counter is written in a boot in which the dependency check had
\* rejected a slot before
C8_Witness ==
    /\ PosOf("boot_update_security_counter") # {}
    /\ \E i \in Images : DependencyRejected(i)

\* C9: in DIRECT_XIP with revert and hardware rollback protection, the
\* security counter of an image that reached the update step is written
\* iff the trailer of its committed slot has image_ok set.
C9_CounterIffImageOk ==
    (IsXip /\ cfg.revert /\ cfg.hw_rollback_prot) =>
        \A i \in Images :
            Pos("boot_update_hw_rollback_protection", i) # {} =>
                (Pos("boot_update_security_counter", i) # {}
                    <=> flash[i][ActiveSlot(i)].image_ok = "set")

\* the first candidate had image_ok set and was rejected; the committed
\* slot has not, and the counter is not written
C9_Witness ==
    /\ IsXip /\ cfg.revert /\ cfg.hw_rollback_prot
    /\ \E i \in Images :
          /\ Pos("boot_update_hw_rollback_protection", i) # {}
          /\ Pos("boot_update_security_counter", i) = {}
          /\ ActiveSlot(i) \in Slots
          /\ flash0[i][1 - ActiveSlot(i)].image_ok = "set"
          /\ Has(Log("boot_validate_slot", i, 1 - ActiveSlot(i), 1))

\* a slot with a valid header that was selected before and not confirmed
Unconfirmed0(i, s) ==
    /\ flash0[i][s].hdr_ok
    /\ flash0[i][s].magic = "good"
    /\ flash0[i][s].copy_done = "set"
    /\ flash0[i][s].image_ok # "set"

\* C10 as stated: in a revert build, a slot that was selected before and
\* not confirmed is never the committed slot and is erased when the boot
\* returns success.
C10_AsStated ==
    cfg.revert =>
        \A i \in Images, s \in Slots :
            (~Masked(i) /\ Scanned(i) /\ Unconfirmed0(i, s)) =>
                /\ ActiveSlot(i) # s
                /\ BootSucceeded => flash[i][s] = ErasedSlot

\* C10 amended: such a slot is never the committed slot, is never loaded
\* or validated, and boot_scramble_region is called on it as soon as the
\* revert gate has read its trailer; it is erased when that call succeeds
\* (it stays as it is when no gate call reaches it).
C10_UnconfirmedErasedAtGate ==
    cfg.revert =>
        \A i \in Images, s \in Slots :
            (~Masked(i) /\ Scanned(i) /\ Unconfirmed0(i, s)) =>
                /\ pc # "abort" => ActiveSlot(i) # s
                /\ \A k \in DOMAIN calls :
                      (calls[k][2] = i /\ calls[k][3] = s) =>
                          calls[k][1] \notin {"boot_validate_slot", "boot_load_image_to_sram",
                                              "boot_write_copy_done"}
                /\ \A k \in DOMAIN calls :
                      calls[k] = Log("boot_read_swap_state", i, s, 0) =>
                          /\ k < Len(calls)
                          /\ calls[k + 1][1] = "boot_scramble_region"
                          /\ calls[k + 1][2] = i /\ calls[k + 1][3] = s
                          /\ calls[k + 1][4] = 0 => flash[i][s] = ErasedSlot

\* an unconfirmed slot was erased and the boot went on to succeed
C10_Witness ==
    /\ cfg.revert
    /\ BootSucceeded
    /\ \E i \in Images, s \in Slots :
          /\ ~Masked(i) /\ Unconfirmed0(i, s)
          /\ Has(Log("boot_scramble_region", i, s, 0))
          /\ flash[i][s] = ErasedSlot


\* both slots of image i hold an invalid header at boot entry
BothHeadersInvalid(i) == \A s \in Slots : ~flash0[i][s].hdr_ok

\* C12 as stated: if both slots of a non-masked image have invalid headers,
\* boot_go does not get past the selection and returns failure, and no
\* trailer read or write, no scramble or erase, no RAM load and no
\* validation is performed on a slot of that image.
NoValidHeaderFails(i) ==
    /\ pc \notin {"deps", "update", "shared", "fill"}
    /\ pc = "done" => boot_result = FIH_FAILURE
    /\ \A k \in DOMAIN calls :
          calls[k][2] = i =>
              calls[k][1] \notin {"active_slot", "boot_read_swap_state",
                                  "boot_write_copy_done", "boot_scramble_region",
                                  "boot_remove_image_from_flash",
                                  "boot_load_image_to_sram", "boot_validate_slot"}
    /\ \A s \in Slots : flash[i][s] = flash0[i][s]

C12_AsStated ==
    \A i \in Images :
        (~Masked(i) /\ BothHeadersInvalid(i)) => NoValidHeaderFails(i)

\* C12: if both slots of a non-masked image have invalid headers and no
\* find-slot hook gives a slot for that image, boot_go does not get past the
\* selection and returns failure, and no trailer read or write, no scramble
\* or erase, no RAM load and no validation is performed on a slot of that
\* image.
C12_NoValidHeaderFails ==
    \A i \in Images :
        (~Masked(i) /\ BothHeadersInvalid(i) /\ DefaultPolicy(i)) => NoValidHeaderFails(i)

\* the selector found no slot for an image whose headers are both invalid
C12_Witness ==
    /\ BootFailed
    /\ \E i \in Images :
          /\ ~Masked(i) /\ BothHeadersInvalid(i) /\ Scanned(i)
          /\ Has(Log("no_slot", i, 0, 1))


\* the dependency entries in the TLVs of slot s of image i
DepsOf(i, s) == flash[i][s].deps

\* C11: when boot_go returns success with more than one image, every
\* dependency entry of the committed slot of every non-masked image names
\* an image of the build and is satisfied by the version in the header,
\* cached and in flash, of the slot that is committed for that image at
\* the end.
C11_DependenciesSatisfied ==
    (BootSucceeded /\ cfg.nimg > 1) =>
        \A i \in Images :
            ~Masked(i) =>
                \A k \in DOMAIN DepsOf(i, ActiveSlot(i)) :
                    LET dep == DepsOf(i, ActiveSlot(i))[k]
                        j == dep.image_id
                    IN  /\ j \in Images
                        /\ ActiveSlot(j) \in Slots
                        /\ boot_compare_version(imgs[j][ActiveSlot(j)].ih_ver,
                                                dep.min_ver) >= 0
                        /\ boot_compare_version(flash[j][ActiveSlot(j)].ih_ver,
                                                dep.min_ver) >= 0

\* a boot succeeds with a dependency in a committed slot, after the
\* dependency check had rejected a slot
C11_Witness ==
    /\ BootSucceeded
    /\ \E i \in Images : DependencyRejected(i)
    /\ \E i \in Images : ~Masked(i) /\ DepsOf(i, ActiveSlot(i)) # <<>>


\* the dependency check of a slot ended on a malformed entry (wrong
\* length) or on an I/O error (TLV iterator, read of the entry)
HardDependencyError(e) ==
    /\ e[1] = "boot_verify_slot_dependencies"
    /\ \/ e[4] \in {BOOT_EBADIMAGE, BOOT_EFLASH}
       \/ Fails("f_tlv_begin", e[2], e[3])
       \/ Fails("f_tlv_next", e[2], e[3])

\* C13: a malformed dependency TLV or an I/O error during the dependency
\* check makes boot_go return failure at once: no slot is selected
\* afterwards and the boot does not succeed.
C13_TlvErrorIsHardFailure ==
    \A k \in DOMAIN calls :
        HardDependencyError(calls[k]) =>
            /\ \A m \in PosOf("active_slot") : m < k
            /\ pc = "done" => boot_result = FIH_FAILURE

\* everything but slot s of image i is as good as it gets: no I/O call
\* fails, no image is masked, the other slot of image i and both slots of
\* the other images pass every filter and carry no dependency
AllFineBut(i, s) ==
    /\ faults = {}
    /\ \A j \in Images : ~Masked(j)
    /\ \A j \in Images, t \in Slots :
          <<j, t>> # <<i, s>> => (WouldPass(j, t) /\ flash0[j][t].deps = <<>>)

\* C14: a dependency entry that names an image the build does not have
\* gets the active slot of the requesting image rejected, and nothing
\* else: the slot is marked unavailable and is not the active slot again
\* (unless a find-slot hook gives it again), the selection is retried, and
\* the boot succeeds on the other slot of the requester when that slot and
\* everything else is in order.
C14_BadImageIdRejectsSlotOnly ==
    \A k \in PosOf("boot_verify_slot_dependencies") :
        calls[k][4] = BOOT_EBADARGS =>
            LET i == calls[k][2]
                s == calls[k][3]
                r == IF IsRam THEN k + 2 ELSE k + 1
            IN  /\ r <= Len(calls)
                /\ calls[r] = Log("reject", i, s, BOOT_EBADARGS)
                /\ IsRam => calls[k + 1] = Log("boot_remove_image_from_sram", i, s, 0)
                /\ r < Len(calls) => calls[r + 1][1] # "reject"
                /\ ~slot_usage[i].slot_available[s]
                /\ DefaultPolicy(i) => ActiveSlot(i) # s
                /\ flash[i][s] = flash0[i][s]
                /\ (pc = "done" /\ AllFineBut(i, s)) =>
                      (boot_result = FIH_SUCCESS /\ ActiveSlot(i) = 1 - s)

\* a boot succeeds on the other slot after such a rejection
C14_Witness ==
    /\ BootSucceeded
    /\ \E k \in PosOf("boot_verify_slot_dependencies") :
          /\ calls[k][4] = BOOT_EBADARGS
          /\ AllFineBut(calls[k][2], calls[k][3])
          /\ ActiveSlot(calls[k][2]) = 1 - calls[k][3]


\* C15: in RAM_LOAD every boot_validate_slot call comes right after a
\* successful boot_load_image_to_sram of the same slot; its result is the
\* one of the image that was copied (the flash content at the time of the
\* copy, which for a slot loaded once is the content on entry), whatever is
\* written to the flash of the slot after the copy, and on success the SRAM
\* holds that copy of the committed slot.
C15_ValidatedInRam ==
    IsRam =>
        /\ \A v \in PosOf("boot_validate_slot") :
              /\ v > 1
              /\ calls[v - 1] = Log("boot_load_image_to_sram", calls[v][2], calls[v][3], 0)
              /\ TriedOnce(calls[v][2], calls[v][3]) =>
                    (calls[v][4] = 0 <=> flash0[calls[v][2]][calls[v][3]].sig_ok)
        /\ BootSucceeded =>
              \A i \in Images :
                  ~Masked(i) =>
                      /\ sram[i].slot = ActiveSlot(i) /\ sram[i].sig_ok
                      /\ TriedOnce(i, ActiveSlot(i)) =>
                            sram[i] = RamCopy(ActiveSlot(i), flash0[i][ActiveSlot(i)])

\* a boot succeeds on a slot whose flash was rewritten, after the copy to
\* SRAM, with an image that does not pass the validation
C15_Witness ==
    /\ IsRam /\ BootSucceeded
    /\ \E i \in Images :
          /\ ~Masked(i)
          /\ Fails("f_tamper", i, ActiveSlot(i))
          /\ ~flash[i][ActiveSlot(i)].sig_ok
          /\ sram[i].sig_ok


\* the positions of the log at which the device was reset
Reboots == PosOf("reboot")

\* In the boot before the reset rb, slot s of image i was committed and
\* the revert gate wrote copy_done to its trailer (so the trailer had
\* magic = good and copy_done # set), and the write succeeded.
FirstBootedBefore(i, s, rb) ==
    /\ ~Masked(i)
    /\ \E k \in 1 .. (rb - 1) : calls[k] = Log("boot_write_copy_done", i, s, 0)
    /\ \E k \in 1 .. (rb - 1) :
          /\ calls[k] = Log("active_slot", i, s, 0)
          /\ \A m \in (k + 1) .. (rb - 1) :
                ~(calls[m][1] = "active_slot" /\ calls[m][2] = i)

\* After the reset rb: every time slot s of image i is made the candidate,
\* the gate reads its trailer, scrambles it and the slot is rejected, then
\* the other slot (or the slot a find-slot hook gives) is tried or no slot
\* is left; and slot s is not the active slot once the headers of image i
\* have been read again.  When the scramble fails, the boot stops in the
\* assertion of the gate, or (NDEBUG) the slot is rejected as it is.
ScrambledWhenCandidate(i, s, rb) ==
    /\ \A m \in Pos("active_slot", i) :
          (m > rb /\ calls[m][3] = s) =>
              /\ m + 2 <= Len(calls)
              /\ calls[m + 1] = Log("boot_read_swap_state", i, s, 0)
              /\ calls[m + 2][1] = "boot_scramble_region"
              /\ calls[m + 2][2] = i /\ calls[m + 2][3] = s
              /\ IF calls[m + 2][4] = 0 THEN flash[i][s] = ErasedSlot
                 ELSE cfg.asserts <=> (pc = "abort" /\ m + 2 = Len(calls))
              /\ pc # "abort" =>
                    /\ m + 3 <= Len(calls)
                    /\ calls[m + 3] = Log("reject", i, s, 0)
                    /\ m + 3 < Len(calls) =>
                          calls[AfterHook(m + 4)] \in
                              {Log("active_slot", i, 1 - s, 0), Log("no_slot", i, 0, 1)}
                                \cup {Log("active_slot", i, a, 0) : a \in HookAnswers(i)}
    /\ (pc # "abort" /\ \E m \in Pos("boot_read_image_headers", i) : m > rb) =>
          ActiveSlot(i) # s

\* C16 as stated: the slot committed for the first time in one boot, whose
\* image does not set image_ok before the next boot, is scrambled and
\* rejected in the next boot when it is the candidate again.
C16_AsStated ==
    \A rb \in Reboots :
        calls[rb][4] = 0 =>
            \A i \in Images, s \in Slots :
                FirstBootedBefore(i, s, rb) => ScrambledWhenCandidate(i, s, rb)

\* C16 amended: the same for a slot whose trailer does not have image_ok
\* set when the next boot starts (the image did not set it and it was not
\* set in the trailer before).
C16_UnconfirmedRevertedOnNextBoot ==
    \A rb \in Reboots :
        \A i \in Images, s \in Slots :
            (FirstBootedBefore(i, s, rb) /\ flash0[i][s].image_ok # "set") =>
                ScrambledWhenCandidate(i, s, rb)

\* the second boot scrambled the slot the first boot had committed and
\* succeeded on the other slot
C16_Witness ==
    /\ BootSucceeded
    /\ \E rb \in Reboots : \E i \in Images, s \in Slots :
          /\ FirstBootedBefore(i, s, rb)
          /\ \E m \in Pos("boot_scramble_region", i) : m > rb /\ calls[m][3] = s
          /\ ActiveSlot(i) = 1 - s


\* the non-masked images
Enabled == {i \in Images : ~Masked(i)}

\* C17: on success the response is that of the lowest-index non-masked
\* image: device id and offset of its committed slot and the header
\* cached for that slot, which is the header the slot had at boot entry;
\* that slot passed the validation in this boot.
C17_ResponseOfFirstEnabledImage ==
    BootSucceeded =>
        /\ Enabled # {}
        /\ \A i \in Enabled :
              (\A j \in Enabled : i <= j) =>
                  LET a == ActiveSlot(i)
                  IN  /\ a \in Slots
                      /\ rsp = [br_flash_dev_id |-> SlotDev(i, a),
                                br_image_off    |-> SlotOff(i, a),
                                br_hdr          |-> <<i, a>>]
                      /\ imgs[i][a] = ScannedHdr(flash0[i][a])
                      /\ ValidatedSinceSet(i, a)

\* image 0 is masked and the response points at the secondary slot of
\* image 1
C17_Witness ==
    /\ BootSucceeded
    /\ cfg.nimg > 1 /\ Masked(0) /\ ~Masked(1)
    /\ ActiveSlot(1) = 1
    /\ rsp.br_image_off = SlotOff(1, 1)


\* the trailer of slot s of image i on entry to the boot
Trailer0(i, s) ==
    [magic     |-> flash0[i][s].magic,
     copy_done |-> flash0[i][s].copy_done,
     image_ok  |-> flash0[i][s].image_ok]

TrailerValues ==
    [magic : {"good", "bad", "unset"}, copy_done : {"set", "unset", "bad"},
     image_ok : {"set", "unset", "bad"}]

\* C18: whatever the trailer of the slot, boot_select_or_erase scrambles
\* the slot and rejects it exactly when magic is not good or copy_done is
\* set without image_ok; otherwise it accepts the slot (the slot goes on to
\* the load or the validation), it writes copy_done exactly when copy_done
\* is not set ('bad' like 'unset'), and it writes nothing when copy_done
\* and image_ok are both set.  Stated for the slots that pass the gate once
\* in the boot, whose trailer at the gate is the trailer on entry, and for a
\* trailer read that succeeds; when the scramble fails, the boot stops in
\* the assertion of the gate, or (NDEBUG) the slot is rejected as it is.
\* The trailer of an accepted slot stays as the gate left it unless the
\* slot then fails the validation, which erases it.
C18_GateDecisionTable ==
    \A k \in PosOf("boot_read_swap_state") :
        LET i == calls[k][2]
            s == calls[k][3]
            t == Trailer0(i, s)
            erase == t.magic # "good" \/ (t.copy_done = "set" /\ t.image_ok # "set")
            next == IF t.copy_done # "set" THEN k + 2 ELSE k + 1
        IN  (TriedOnce(i, s) /\ calls[k][4] = 0) =>
            /\ t \in TrailerValues
            /\ slot_usage[i].swap_state = t \/ ActiveSlot(i) # s
            /\ k + 1 <= Len(calls)
            /\ IF erase
               THEN /\ calls[k + 1][1] = "boot_scramble_region"
                    /\ calls[k + 1][2] = i /\ calls[k + 1][3] = s
                    /\ IF calls[k + 1][4] = 0 THEN flash[i][s] = ErasedSlot
                       ELSE /\ flash[i][s] = flash0[i][s]
                            /\ cfg.asserts <=> pc = "abort"
                    /\ pc # "abort" =>
                          /\ calls[k + 2] = Log("reject", i, s, 0)
                          /\ ~slot_usage[i].slot_available[s]
               ELSE /\ ~Has(Log("boot_scramble_region", i, s, 0))
                    /\ (t.copy_done # "set") <=>
                          (calls[k + 1][1] = "boot_write_copy_done"
                             /\ calls[k + 1][2] = i /\ calls[k + 1][3] = s)
                    /\ {m \in Pos("boot_write_copy_done", i) : calls[m][3] = s}
                          \subseteq {k + 1}
                    /\ calls[next][1] =
                          (IF IsRam THEN "boot_load_image_to_sram" ELSE "boot_validate_slot")
                    /\ calls[next][2] = i /\ calls[next][3] = s
                    /\ IF Has(Log("boot_validate_slot", i, s, 1))
                       THEN flash[i][s] = ErasedSlot
                       ELSE /\ flash[i][s].magic = t.magic
                            /\ flash[i][s].image_ok = t.image_ok
                            /\ flash[i][s].copy_done =
                                  (IF t.copy_done = "set"
                                      \/ Has(Log("boot_write_copy_done", i, s, 0))
                                   THEN "set" ELSE t.copy_done)

\* a slot whose copy_done reads 'bad' and whose image_ok is not set was
\* accepted, copy_done was written and the slot was committed
C18_Witness ==
    /\ BootSucceeded
    /\ \E i \in Images : \E s \in Slots :
          /\ Trailer0(i, s) = [magic |-> "good", copy_done |-> "bad", image_ok |-> "unset"]
          /\ Has(Log("boot_write_copy_done", i, s, 0))
          /\ ActiveSlot(i) = s
          /\ flash[i][s].copy_done = "set"


\* the only calls that fail are calls of boot_write_copy_done, no image is
\* masked, and every slot passes every filter and carries no dependency
OnlyCopyDoneFails ==
    /\ \A f \in faults : f[1] = "f_copy_done"
    /\ \A j \in Images : ~Masked(j)
    /\ \A j \in Images, t \in Slots : WouldPass(j, t) /\ flash0[j][t].deps = <<>>

\* C19: a failed boot_write_copy_done does not reject the slot: the slot
\* goes on to the load (RAM_LOAD) or the validation (DIRECT_XIP), a slot
\* that was available when the gate ran stays available unless a later
\* stage fails on it, and when nothing else is wrong it is committed and
\* boot_go returns success.
C19_CopyDoneWriteFailureIgnored ==
    \A k \in PosOf("boot_write_copy_done") :
        calls[k][4] # 0 =>
            LET i == calls[k][2]
                s == calls[k][3]
            IN  /\ k + 1 <= Len(calls)
                /\ calls[k + 1][1] =
                      (IF IsRam THEN "boot_load_image_to_sram" ELSE "boot_validate_slot")
                /\ calls[k + 1][2] = i /\ calls[k + 1][3] = s
                /\ (/\ flash0[i][s].hdr_ok
                    /\ \A n \in 1 .. k : ~(calls[n][1] = "reject" /\ calls[n][2] = i
                                            /\ calls[n][3] = s)
                    /\ ~slot_usage[i].slot_available[s]) =>
                      \E m \in DOMAIN calls :
                          /\ m > k
                          /\ calls[m][2] = i
                          /\ calls[m][4] # 0
                          /\ calls[m][1] \in {"boot_load_image_to_sram", "boot_validate_slot",
                                              "boot_verify_slot_dependencies"}
                /\ (pc = "done" /\ OnlyCopyDoneFails) =>
                      /\ boot_result = FIH_SUCCESS
                      /\ ActiveSlot(i) = s
                      /\ slot_usage[i].slot_available[s]
                      /\ ValidatedSinceSet(i, s)

\* boot_write_copy_done failed on a slot and the boot succeeded with that
\* slot committed, its copy_done flag still not set
C19_Witness ==
    /\ BootSucceeded
    /\ \E i \in Images : \E s \in Slots :
          /\ Has(Log("boot_write_copy_done", i, s, 1))
          /\ ActiveSlot(i) = s
          /\ slot_usage[i].slot_available[s]
          /\ flash[i][s].copy_done # "set"


\* the header of slot s of image i is marked ROM_FIXED and names a load
\* address that is not the offset of the slot
RomMismatch(i, s) ==
    /\ (flash0[i][s].ih_flags \div IMAGE_F_ROM_FIXED) % 2 = 1
    /\ flash0[i][s].ih_load_addr # SlotOff(i, s)

\* C20: in DIRECT_XIP the candidate slot of a non-masked image is rejected
\* right after it was made the candidate exactly when its header is
\* ROM_FIXED with a load address other than the slot offset.  The
\* rejection leaves the flash of the slot alone (no trailer read, no
\* copy_done write, no scramble, no validation), clears slot_available of
\* that slot only and resets active_slot; the selector goes on with the
\* other slot when that is available (unless a find-slot hook gives the
\* next slot), and the boot succeeds on it when everything else is in order.
C20_RomCheckRejectsMismatchOnly ==
    \A k \in PosOf("active_slot") :
        LET i == calls[k][2]
            s == calls[k][3]
            o == 1 - s
            other == /\ flash0[i][o].hdr_ok
                     /\ ~\E m \in 1 .. k : calls[m] = Log("reject", i, o, 0)
        IN  ~Masked(i) =>
              /\ k + 1 <= Len(calls)
              /\ RomMismatch(i, s) <=> (calls[k + 1] = Log("reject", i, s, 0))
              /\ RomMismatch(i, s) =>
                    /\ flash[i][s] = flash0[i][s]
                    /\ \A m \in DOMAIN calls :
                          (calls[m][2] = i /\ calls[m][3] = s) =>
                              calls[m][1] \notin {"boot_read_swap_state", "boot_write_copy_done",
                                                  "boot_scramble_region", "boot_validate_slot"}
                    /\ ~slot_usage[i].slot_available[s]
                    /\ ActiveSlot(i) # s
                    /\ k + 1 = Len(calls) =>
                          /\ pc = "select" /\ curr_img = i
                          /\ ActiveSlot(i) = BOOT_SLOT_NONE
                          /\ slot_usage[i].slot_available[o] = other
                    /\ (k + 1 < Len(calls) /\ DefaultPolicy(i)) =>
                          calls[AfterHook(k + 2)] =
                              (IF other THEN Log("active_slot", i, o, 0)
                               ELSE Log("no_slot", i, 0, 1))
                    /\ (pc = "done" /\ AllFineBut(i, s)) =>
                          (boot_result = FIH_SUCCESS /\ ActiveSlot(i) = o)

\* the primary slot is ROM_FIXED for another offset, it was rejected
\* untouched and the boot succeeded on the secondary slot
C20_Witness ==
    /\ BootSucceeded
    /\ \E i \in Images :
          /\ RomMismatch(i, BOOT_SLOT_PRIMARY)
          /\ Has(Log("reject", i, BOOT_SLOT_PRIMARY, 0))
          /\ flash[i][BOOT_SLOT_PRIMARY] = flash0[i][BOOT_SLOT_PRIMARY]
          /\ ActiveSlot(i) = 1


\* C21: in RAM_LOAD a failed boot_load_image_to_sram of a candidate slot
\* is followed by boot_remove_image_from_sram and
\* boot_remove_image_from_flash for that slot and by its rejection; the
\* slot is then unavailable and scrubbed, and the selector goes on with the
\* other slot.
C21_LoadFailureCleansRamAndFlash ==
    \A k \in PosOf("boot_load_image_to_sram") :
        calls[k][4] # 0 =>
            LET i == calls[k][2]
                s == calls[k][3]
                upto == CHOOSE m \in k .. Len(calls) :
                            /\ calls[m] = Log("reject", i, s, 0)
                            /\ \A n \in k .. (m - 1) : calls[n][1] # "reject"
            IN  /\ \E m \in k .. Len(calls) : calls[m] = Log("reject", i, s, 0)
                /\ \E m \in k .. upto : calls[m] = Log("boot_remove_image_from_flash", i, s, 0)
                /\ \E m \in k .. upto : calls[m] = Log("boot_remove_image_from_sram", i, s, 0)
                /\ ~slot_usage[i].slot_available[s]
                /\ flash[i][s] = ErasedSlot


\* what a read of imgs[t][active_slot] outside the two slots of image t can
\* return to boot_compare_version (a read that faults returns nothing)
OobReads == OobVersions \ {OobFault}

\* the version boot_verify_slot_dependency_xip_ram compares for target t:
\* the header cached for its active slot or, when active_slot of t is no
\* slot index (the never-written record of a masked image), what the read
\* outside the slots of t returned (oob)
TargetVersion(t, oob) ==
    IF InsideImgs(t, ActiveSlot(t))
    THEN ImgsAt(FlatIndex(t, ActiveSlot(t))).ih_ver
    ELSE oob

\* dependency entry e has the length of a dependency and names an image of
\* the build
EntryWellFormed(e) == e.len = DEP_SIZE /\ e.image_id \in Images

\* dependency entry e is well-formed and the version read for its target
\* is not below its minimum
EntryPasses(e, oob) ==
    /\ EntryWellFormed(e)
    /\ boot_compare_version(TargetVersion(e.image_id, oob), e.min_ver) >= 0

\* boot_verify_slot_dependencies_xip_ram fails on the committed slot of
\* image j when the reads outside imgs return oob: the TLV iterator cannot
\* be started or reports an error, an entry cannot be read, is malformed,
\* names an image the build does not have or asks for more than the
\* version read for its target
BrokenDependency(j, oob) ==
    /\ ActiveSlot(j) \in Slots
    /\ \/ Fails("f_tlv_begin", j, ActiveSlot(j))
       \/ Fails("f_tlv_next", j, ActiveSlot(j))
       \/ Fails("f_tlv_read", j, ActiveSlot(j)) /\ SlotDeps(j, ActiveSlot(j)) # <<>>
       \/ \E k \in DOMAIN SlotDeps(j, ActiveSlot(j)) :
            ~EntryPasses(SlotDeps(j, ActiveSlot(j))[k], oob)

\* the effect of a retry on image i: its committed slot becomes
\* unavailable, its active_slot is reset, in RAM_LOAD its RAM copy is
\* removed; nothing else of any image changes
RetryRejectsOnly(i) ==
    LET a == ActiveSlot(i)
    IN  /\ a \in Slots
        /\ slot_usage'[i].active_slot = BOOT_SLOT_NONE
        /\ ~slot_usage'[i].slot_available[a]
        /\ slot_usage'[i].slot_available[1 - a] = slot_usage[i].slot_available[1 - a]
        /\ sram'[i] = (IF IsRam THEN NoRamImage ELSE sram[i])
        /\ \A j \in Images \ {i} : slot_usage'[j] = slot_usage[j] /\ sram'[j] = sram[j]
        /\ flash' = flash /\ imgs' = imgs
        /\ \A m \in (Len(calls) + 1) .. Len(calls') : calls'[m][2] = i

\* a retry step: for what the reads outside imgs returned in this pass,
\* image i is the first non-masked image whose check fails, and the step
\* rejects its committed slot only
RetryOfFirstBroken ==
    \E oob \in OobReads :
        \E i \in Images :
            /\ ~Masked(i) /\ BrokenDependency(i, oob)
            /\ \A j \in 0 .. (i - 1) : Masked(j) \/ ~BrokenDependency(j, oob)
            /\ RetryRejectsOnly(i)

\* C22: every retry of the dependency resolver rejects the committed slot
\* of exactly one image, the first non-masked image with a broken
\* dependency, and changes nothing else.
C22_RetryRejectsExactlyOne ==
    [][(pc = "deps" /\ pc' = "select") => RetryOfFirstBroken]_vars

\* C22 for the runs in which at least one image is not masked: every
\* retry rejects the committed slot of the first non-masked image with a
\* broken dependency and changes nothing else.
C22_RetryRejectsFirstBroken ==
    [][(pc = "deps" /\ pc' = "select" /\ \E i \in Images : ~Masked(i))
          => RetryOfFirstBroken]_vars

\* both images had a broken dependency; the resolver rejected the slot of
\* image 0 and left image 1 committed
C22_Witness ==
    /\ pc = "select"
    /\ calls # <<>>
    /\ calls[Len(calls)][1] = "reject" /\ calls[Len(calls)][2] = 0
    /\ calls[Len(calls)][4] # 0
    /\ ~Masked(0) /\ ~Masked(1)
    /\ ActiveSlot(0) = BOOT_SLOT_NONE
    /\ ActiveSlot(1) \in Slots
    /\ \E oob \in OobReads : BrokenDependency(1, oob)


\* entry k of the committed slot of image i is one the next pass of
\* boot_verify_dependencies_xip_ram compares when the reads outside imgs
\* return oob: the image is not masked, the check of no image before it
\* fails, the TLV iterator of the slot starts and reports no error, the
\* entries are read, every entry before k passes, and entry k itself is
\* well-formed
EntryEvaluated(i, k, oob) ==
    /\ ~Masked(i)
    /\ \A j \in 0 .. (i - 1) : Masked(j) \/ ~BrokenDependency(j, oob)
    /\ ActiveSlot(i) \in Slots
    /\ ~Fails("f_tlv_begin", i, ActiveSlot(i))
    /\ ~Fails("f_tlv_next", i, ActiveSlot(i))
    /\ ~Fails("f_tlv_read", i, ActiveSlot(i))
    /\ k \in DOMAIN SlotDeps(i, ActiveSlot(i))
    /\ \A m \in 1 .. (k - 1) : EntryPasses(SlotDeps(i, ActiveSlot(i))[m], oob)
    /\ EntryWellFormed(SlotDeps(i, ActiveSlot(i))[k])

\* C23: when the dependency resolver compares a dependency entry, the
\* target image, masked or not, has an active slot 0 or 1 that is marked
\* available.
C23_DependencyTargetCommitted ==
    pc = "deps" =>
        \A oob \in OobReads : \A i \in Images : \A k \in 1 .. DEP_SIZE :
            EntryEvaluated(i, k, oob) =>
                LET t == SlotDeps(i, ActiveSlot(i))[k].image_id
                IN  /\ ActiveSlot(t) \in Slots
                    /\ slot_usage[t].slot_available[ActiveSlot(t)]

\* C23 for the targets that are not masked
C23_UnmaskedTargetCommitted ==
    pc = "deps" =>
        \A oob \in OobReads : \A i \in Images : \A k \in 1 .. DEP_SIZE :
            (EntryEvaluated(i, k, oob)
                /\ ~Masked(SlotDeps(i, ActiveSlot(i))[k].image_id)) =>
                LET t == SlotDeps(i, ActiveSlot(i))[k].image_id
                IN  /\ ActiveSlot(t) \in Slots
                    /\ slot_usage[t].slot_available[ActiveSlot(t)]

\* a dependency on a masked image is about to be compared
C23_Witness ==
    /\ pc = "deps"
    /\ \E oob \in OobReads : \E i \in Images :
          /\ EntryEvaluated(i, 1, oob)
          /\ Masked(SlotDeps(i, ActiveSlot(i))[1].image_id)


AllMasked == cfg.nimg > 1 /\ \A i \in Images : Masked(i)

\* C24: with more than one image and every image masked, every pass of
\* the dependency resolver returns -1 and changes no slot-usage record,
\* RAM copy, flash content or cached header, the selection pass that
\* follows changes nothing either, and the boot never leaves the loop: it
\* does not reach the security counter update and does not return.
C24_AllMaskedLoopsForever ==
    /\ [](AllMasked =>
            /\ pc \notin {"update", "shared", "fill"}
            /\ ~BootSucceeded
            /\ Has(Log("boot_verify_dependencies", 0, 0, -1)) => pc \in {"select", "deps"})
    /\ [][(AllMasked /\ pc = "deps") =>
            /\ pc' = "select" /\ rc' = -1
            /\ slot_usage' = slot_usage /\ sram' = sram
            /\ flash' = flash /\ imgs' = imgs]_vars
    /\ [][(AllMasked /\ pc = "select" /\ Has(Log("boot_verify_dependencies", 0, 0, -1))) =>
            /\ pc' \in {"select", "deps"}
            /\ slot_usage' = slot_usage /\ sram' = sram
            /\ flash' = flash /\ imgs' = imgs]_vars

\* every image is masked and the loop is in its IterCap-th pass
C24_Witness ==
    /\ AllMasked
    /\ outer_iter = IterCap
    /\ pc = "deps"
    /\ rc = -1


\* the calls the selector makes on a candidate slot, and its rejection
SlotProcessingCalls ==
    {"boot_find_next_slot_hook",
     "boot_read_swap_state", "boot_write_copy_done", "boot_scramble_region",
     "boot_load_image_to_sram", "boot_remove_image_from_flash",
     "boot_remove_image_from_sram", "boot_validate_slot", "reject"}

\* the selector makes none of its calls on a slot of a masked image
MaskedNotProcessed ==
    \A i \in Images :
        Masked(i) =>
            /\ \A k \in DOMAIN calls :
                  calls[k][2] = i => calls[k][1] \notin SlotProcessingCalls
            /\ \A s \in Slots : flash[i][s] = flash0[i][s]
            /\ sram[i] = NoRamImage

\* C25: the selector processes only the images that are not masked: for
\* a masked image it makes no ROM check, trailer access, RAM load or
\* validation, it does not set active_slot, and it never returns failure
\* because of it, whatever the slot-usage record of the masked image
\* holds.
C25_MaskedImageLeftAlone ==
    /\ MaskedNotProcessed
    /\ \A i \in Images :
          Masked(i) => (Pos("active_slot", i) = {} /\ Pos("no_slot", i) = {})

\* C25 without the last two parts
C25_MaskedImageNotProcessed == MaskedNotProcessed

\* the selector returned failure on a masked image while the image that
\* is not masked has a valid slot
C25_Witness ==
    /\ BootFailed
    /\ \E i \in Images :
          /\ Masked(i)
          /\ Has(Log("no_slot", i, 0, 1))
          /\ \E j \in Images : ~Masked(j) /\ WouldPass(j, 0)


\* the failed dependency check that precedes call m most closely
LastRetryBefore(m) ==
    CHOOSE d \in PosOf("boot_verify_slot_dependencies") :
        /\ d < m
        /\ \A e \in PosOf("boot_verify_slot_dependencies") : e < m => e <= d

\* C26: in a selection pass that follows a dependency retry an image with
\* a committed active slot is skipped without any effect: the step
\* changes no slot-usage record, flash content, RAM copy or cached header
\* and makes no call, the hook call included.  Every call the selector
\* makes after a retry is for the image whose slot that retry rejected; no
\* header is read again and no slot is validated successfully twice
\* (unless a hook gives the rejected slot again).
C26_CommittedImagesSkippedOnRetry ==
    /\ [][(pc = "select" /\ ActiveSlot(curr_img) # BOOT_SLOT_NONE) =>
            /\ slot_usage' = slot_usage /\ flash' = flash /\ sram' = sram
            /\ imgs' = imgs /\ calls' = calls]_vars
    /\ [](\A m \in DOMAIN calls :
            (\E d \in PosOf("boot_verify_slot_dependencies") : d < m) =>
                /\ calls[m][1] # "boot_read_image_headers"
                /\ calls[m][1] \in SlotProcessingCalls \cup {"active_slot", "no_slot"}
                      => calls[m][2] = calls[LastRetryBefore(m)][2])
    /\ [](\A m \in PosOf("boot_validate_slot") : \A n \in PosOf("boot_validate_slot") :
            (calls[m] = calls[n] /\ calls[m][4] = 0 /\ HookAnswers(calls[m][2]) = {})
                => m = n)

\* after a retry the rejected image was selected again on its other slot
\* and the boot succeeded
C26_Witness ==
    /\ BootSucceeded
    /\ \E d \in PosOf("boot_verify_slot_dependencies") :
          \E m \in DOMAIN calls :
              /\ m > d
              /\ calls[m] = Log("boot_validate_slot", calls[d][2], 1 - calls[d][3], 0)
              /\ \E j \in Images \ {calls[d][2]} : ActiveSlot(j) \in Slots


\* C27: in RAM_LOAD with revert and hardware rollback protection, the
\* security counter of an image that reached the update step is written
\* only when the trailer of its committed slot has image_ok set.
C27_RamLoadCounterRevertGated ==
    (IsRam /\ cfg.revert /\ cfg.hw_rollback_prot) =>
        \A i \in Images :
            Pos("boot_update_security_counter", i) # {} =>
                /\ ActiveSlot(i) \in Slots
                /\ flash[i][ActiveSlot(i)].image_ok = "set"
                /\ slot_usage[i].swap_state.image_ok = "set"

\* RAM_LOAD with revert: the counter of an image was written although the
\* committed slot was selected for the first time and is not confirmed
C27_Witness ==
    /\ IsRam /\ cfg.revert /\ cfg.hw_rollback_prot
    /\ BootSucceeded
    /\ \E i \in Images :
          /\ ~Masked(i)
          /\ Has(Log("boot_update_security_counter", i, ActiveSlot(i), 0))
          /\ Has(Log("boot_write_copy_done", i, ActiveSlot(i), 0))
          /\ flash[i][ActiveSlot(i)].image_ok = "unset"


RemovedBeforeRejection ==
    \A k \in PosOf("reject") :
        LET i == calls[k][2]
            s == calls[k][3]
        IN  (\E m \in 1 .. k : /\ calls[m] = Log("boot_load_image_to_sram", i, s, 0)
                               /\ \A n \in (m + 1) .. (k - 1) :
                                     ~(calls[n][1] = "reject" /\ calls[n][2] = i
                                       /\ calls[n][3] = s))
                => calls[k - 1] = Log("boot_remove_image_from_sram", i, s, 0)

\* C29: in RAM_LOAD, between the steps of the selector, the dependency
\* resolver and the orchestrator, a non-masked image has a copy in RAM
\* exactly when the selector has committed a slot for it, and the copy is
\* that of the committed slot; a slot that is rejected after a successful
\* load has its RAM copy removed right before the rejection.
C29_RamCopiesAreTheCommittedImages ==
    IsRam =>
        /\ \A i \in Images :
              (~Masked(i) /\ pc # "abort") =>
                  /\ (sram[i] # NoRamImage) <=> Committed(i)
                  /\ Committed(i) => sram[i].slot = ActiveSlot(i)
        /\ RemovedBeforeRejection

\* C29 for whole copies: in RAM_LOAD a non-masked image has a whole copy
\* in RAM exactly when the selector has committed a slot for it, and the
\* copy is that of the committed slot; what else is in RAM is what a failed
\* load of a slot of the image left there; a slot that is rejected after a
\* successful load has its RAM copy removed right before the rejection.
C29_WholeCopiesAreTheCommittedImages ==
    IsRam =>
        /\ \A i \in Images :
              (~Masked(i) /\ pc # "abort") =>
                  /\ sram[i].whole <=> Committed(i)
                  /\ Committed(i) => sram[i].slot = ActiveSlot(i)
                  /\ (sram[i] # NoRamImage /\ ~Committed(i)) =>
                        /\ sram[i] = PartialCopy(sram[i].slot)
                        /\ Has(Log("boot_load_image_to_sram", i, sram[i].slot, 1))
        /\ RemovedBeforeRejection

\* RAM_LOAD: the load of a slot failed on the way and the slot was
\* rejected; the selector is about to go on with the image, which has no
\* committed slot while a part of the rejected image is in RAM
C29_Witness ==
    /\ IsRam /\ pc = "select"
    /\ \E i \in Images : \E s \in Slots :
          /\ ~Masked(i) /\ curr_img = i
          /\ ~Committed(i)
          /\ calls[Len(calls)] = Log("reject", i, s, 0)
          /\ Has(Log("boot_load_image_to_sram", i, s, 1))
          /\ sram[i] = PartialCopy(s)


\* An assignment of one slot to every image in which every chosen slot is
\* available, admissible and valid and every dependency entry of a chosen
\* slot is well-formed and met by the chosen slot of its target.
Feasible(a) ==
    \A i \in Images :
        /\ WouldPass(i, a[i])
        /\ \A k \in DOMAIN flash0[i][a[i]].deps :
              LET e == flash0[i][a[i]].deps[k]
              IN  /\ e.len = DEP_SIZE
                  /\ e.image_id \in Images
                  /\ boot_compare_version(flash0[e.image_id][a[e.image_id]].ih_ver,
                                          e.min_ver) >= 0

FeasibleAssignments == {a \in [Images -> Slots] : Feasible(a)}

\* C30: with no image masked and no I/O fault, when some assignment of
\* slots is feasible the boot returns success, and the version of the
\* slot it commits for an image is not lower than the version that image
\* has in any feasible assignment.
C30_GreedyIsCompleteAndMaximal ==
    (pc = "done" /\ faults = {} /\ \A i \in Images : ~Masked(i)) =>
        \A a \in FeasibleAssignments :
            /\ boot_result = FIH_SUCCESS
            /\ \A i \in Images :
                  /\ ActiveSlot(i) \in Slots
                  /\ boot_compare_version(flash0[i][ActiveSlot(i)].ih_ver,
                                          flash0[i][a[i]].ih_ver) >= 0

\* a feasible assignment exists and the boot found it after the
\* dependency check had rejected the valid, higher version of an image
C30_Witness ==
    /\ BootSucceeded
    /\ FeasibleAssignments # {}
    /\ \E i \in Images :
          /\ DependencyRejected(i)
          /\ boot_compare_version(flash0[i][1 - ActiveSlot(i)].ih_ver,
                                  flash0[i][ActiveSlot(i)].ih_ver) = 1
          /\ WouldPass(i, 1 - ActiveSlot(i))

====
